---------------------------- MODULE Spec2Model ----------------------------
(***************************************************************************)
(* A model of the Lumina shader-graph agent backend                        *)
(* (backend/src/agent_adk.py): the per-request context, the identifier     *)
(* resolver and operation recorder that the tool-calling run drives, the   *)
(* operation optimizer and validator, and the planning pipeline of         *)
(* process_request.                                                        *)
(*                                                                         *)
(* Strings that the code builds with f-strings are modelled as triples     *)
(* <<prefix, separator, number>>: "node_3" is <<"node", "_", 3>>,          *)
(* "color-1" is <<"color", "-", 1>> and a plain name such as "output" is   *)
(* <<"output", "", -1>>.  Two triples are equal exactly when the strings   *)
(* they stand for are equal.                                               *)
(***************************************************************************)
EXTENDS Integers, Sequences, FiniteSets, TLC

VARIABLES
    pc,      \* position in process_request
    ctx,     \* the _RequestContext of the request, with the closure state of _make_tools
    calls,   \* history: the recorder calls made so far, with what each returned
    definitions,  \* the node catalog the agent was constructed with
    req,     \* the request: latest user text, slash command, inline attachments
    mode,    \* the routed mode
    work,    \* locals of process_request that live across model calls
    resp,    \* the AgentResponse, once returned
    trace,   \* history: the model calls and tiers of this request, in order
    arg,     \* the input of the function under study, when one is studied alone
    result,  \* what that function returned
    assets   \* the asset store the agent was constructed with: the ids it holds

vars == <<pc, ctx, calls, definitions, req, mode, work, resp, trace, arg, result, assets>>

\* Body(v): v is computed once and handed on as a value, as an assignment to a
\* local variable does
Let(v, Body(_)) == CHOOSE r \in {Body(x) : x \in {v}} : TRUE

----------------------------------------------------------------------------
(* Identifiers *)

Nm(s) == <<s, "", -1>>
NodeId(i) == <<"node", "_", i>>
ConnId(i) == <<"conn", "_", i>>
NoId == <<"", "", -1>>

\* str.lower() on the names the model uses
LowerStr(s) ==
    CASE s = "Output" -> "output"
      [] s = "textureAsset" -> "textureasset"
      [] s = "Vertex" -> "vertex"
      [] s = "texture2D" -> "texture2d"
      [] s = "sampleTexture2D" -> "sampletexture2d"
      [] s = "customFunction" -> "customfunction"
      [] OTHER -> s

Lower(id) == <<LowerStr(id[1]), id[2], id[3]>>

VertexAliases == {Nm("vertex"), Nm("vertex-master"), Nm("vertex_master"),
                  Nm("vertexnode"), Nm("vertex-node")}
OutputAliases == {Nm("output"), Nm("master"), Nm("master-node"), Nm("master_node"),
                  Nm("output-node"), Nm("outputnode")}

SingletonTypes == {"output", "vertex"}

----------------------------------------------------------------------------
(* Dictionaries: a dict is a function on its key set *)

EmptyDict == [k \in {} |-> NoId]
DictPut(d, k, v) == (k :> v) @@ d
DictGet(d, k, dflt) == IF k \in DOMAIN d THEN d[k] ELSE dflt

\* an insertion-ordered dict id -> type, as a sequence of [id, type]
OKeys(od) == {od[i].id : i \in 1..Len(od)}
OGet(od, k) ==
    IF k \in OKeys(od)
    THEN od[CHOOSE i \in 1..Len(od) : od[i].id = k].type
    ELSE ""
OPut(od, k, t) ==
    IF k \in OKeys(od)
    THEN [i \in 1..Len(od) |-> IF od[i].id = k THEN [id |-> k, type |-> t] ELSE od[i]]
    ELSE Append(od, [id |-> k, type |-> t])
\* next((nid for nid, t in d.items() if t == ty), None)
FirstOfType(od, ty) ==
    IF \E i \in 1..Len(od) : od[i].type = ty
    THEN od[CHOOSE i \in 1..Len(od) :
              /\ od[i].type = ty
              /\ \A j \in 1..(i-1) : od[j].type # ty].id
    ELSE NoId

----------------------------------------------------------------------------
(* Operations (models.GraphOperation) *)

NoValue == <<"none">>

BlankOp == [op |-> "", nodeId |-> NoId, nodeType |-> "", connectionId |-> NoId,
            sourceNodeId |-> NoId, sourceSocketId |-> "",
            targetNodeId |-> NoId, targetSocketId |-> "",
            dataKey |-> "", dataValue |-> NoValue, assetId |-> NoId,
            previewRequests |-> <<>>]

OpAddNode(nid, ntype) == [BlankOp EXCEPT !.op = "add_node", !.nodeId = nid, !.nodeType = ntype]
OpRemoveNode(nid) == [BlankOp EXCEPT !.op = "remove_node", !.nodeId = nid]
OpMoveNode(nid) == [BlankOp EXCEPT !.op = "move_node", !.nodeId = nid]
OpAddConnection(cid, s, ss, t, ts) ==
    [BlankOp EXCEPT !.op = "add_connection", !.connectionId = cid,
                    !.sourceNodeId = s, !.sourceSocketId = ss,
                    !.targetNodeId = t, !.targetSocketId = ts]
OpRemoveConnection(s, ss, t, ts) ==
    [BlankOp EXCEPT !.op = "remove_connection",
                    !.sourceNodeId = s, !.sourceSocketId = ss,
                    !.targetNodeId = t, !.targetSocketId = ts]
OpUpdateNodeData(nid, k, v) ==
    [BlankOp EXCEPT !.op = "update_node_data", !.nodeId = nid, !.dataKey = k, !.dataValue = v]
OpUploadAsset(aid) == [BlankOp EXCEPT !.op = "upload_asset", !.assetId = aid]

----------------------------------------------------------------------------
(* _RequestContext.__init__ and the closure state _make_tools sets up *)

SnapshotIds(g) == {g[i].id : i \in 1..Len(g)}

RECURSIVE DictFromNodes(_)
DictFromNodes(g) ==
    IF g = <<>> THEN <<>>
    ELSE OPut(DictFromNodes(SubSeq(g, 1, Len(g) - 1)), g[Len(g)].id, g[Len(g)].type)

\* _max_suffix: the pattern rf"^{prefix}_(\\d+)$" asks for a literal backslash
\* followed by the letter d, so no id "<prefix>_<digits>" matches it; a string
\* that does match fails int() and is skipped.  The result is -1 for every set.
MaxSuffix(existing, prefix) == -1

NewContext(g, conn_ids) ==
    [graph_nodes |-> g,
     operations |-> <<>>,
     node_types |-> DictFromNodes(g),
     ph_map |-> EmptyDict,
     ph_counter |-> 0,
     typed_map |-> EmptyDict,
     typed_counters |-> [t \in {} |-> 0],
     existing_node_ids |-> SnapshotIds(g),
     existing_conn_ids |-> conn_ids,
     custom_fn_inputs |-> EmptyDict,
     custom_fn_outputs |-> EmptyDict,
     uploaded_attachment_asset_ids |-> <<>>,
     counters |-> [node |-> MaxSuffix(SnapshotIds(g), "node") + 1,
                   conn |-> MaxSuffix(conn_ids, "conn") + 1]]

----------------------------------------------------------------------------
(* Identifier resolver (closures of _make_tools) *)

\* the first free index at or after `from`
FirstFree(existing, prefix, from) ==
    CHOOSE i \in from..(from + Cardinality(existing)) :
        /\ <<prefix, "_", i>> \notin existing
        /\ \A j \in from..(i-1) : <<prefix, "_", j>> \in existing

\* _new_incremental_id: returns [c, ret]
\* the counters kept on the agent, shared by the requests it serves at once
NewIncrementalId_Global(c, prefix) ==
    IF prefix = "node"
    THEN LET i == FirstFree(c.existing_node_ids, "node",
                            ctx.counters.node + arg.ctx.counters.node)
         IN [c |-> [c EXCEPT !.existing_node_ids = @ \cup {NodeId(i)},
                             !.counters.node = i + 1],
             ret |-> NodeId(i)]
    ELSE LET i == FirstFree(c.existing_conn_ids, "conn",
                            ctx.counters.conn + arg.ctx.counters.conn)
         IN [c |-> [c EXCEPT !.existing_conn_ids = @ \cup {ConnId(i)},
                             !.counters.conn = i + 1],
             ret |-> ConnId(i)]

NewIncrementalId(c, prefix) ==
    IF prefix = "node"
    THEN LET i == FirstFree(c.existing_node_ids, "node", c.counters.node)
         IN [c |-> [c EXCEPT !.existing_node_ids = @ \cup {NodeId(i)},
                             !.counters.node = i + 1],
             ret |-> NodeId(i)]
    ELSE LET i == FirstFree(c.existing_conn_ids, "conn", c.counters.conn)
         IN [c |-> [c EXCEPT !.existing_conn_ids = @ \cup {ConnId(i)},
                             !.counters.conn = i + 1],
             ret |-> ConnId(i)]

\* _peek_next_incremental_id("node")
PeekNextIncrementalId(c) ==
    NodeId(FirstFree(c.existing_node_ids, "node", c.counters.node))

\* _record_placeholder_node without the counter's increment
RecordPlaceholderNode_NoAdvance(c, real_id) ==
    LET idx == c.ph_counter
    IN [c EXCEPT !.ph_map = DictPut(DictPut(@, Lower(<<"node", "_", idx>>), real_id),
                                    Lower(<<"node", "", idx>>), real_id)]

\* _record_placeholder_node: keys "node_<idx>" and "node<idx>"
RecordPlaceholderNode(c, real_id) ==
    LET idx == c.ph_counter
    IN [c EXCEPT !.ph_counter = idx + 1,
                 !.ph_map = DictPut(DictPut(@, Lower(<<"node", "_", idx>>), real_id),
                                    Lower(<<"node", "", idx>>), real_id)]

\* typed placeholders numbered from 0
RecordTypedPlaceholder_FromZero(c, node_type, real_id) ==
    IF node_type = "" THEN c
    ELSE LET n == DictGet(c.typed_counters, node_type, 0)
         IN [c EXCEPT !.typed_counters = DictPut(@, node_type, n + 1),
                      !.typed_map =
                          DictPut(DictPut(DictPut(@, Lower(<<node_type, "-", n>>), real_id),
                                          Lower(<<node_type, "_", n>>), real_id),
                                  Lower(<<node_type, "", n>>), real_id)]

\* _record_typed_placeholder: keys "<t>-<n>", "<t>_<n>", "<t><n>", lower-cased
RecordTypedPlaceholder(c, node_type, real_id) ==
    IF node_type = "" THEN c
    ELSE LET n == DictGet(c.typed_counters, node_type, 0) + 1
         IN [c EXCEPT !.typed_counters = DictPut(@, node_type, n),
                      !.typed_map =
                          DictPut(DictPut(DictPut(@, Lower(<<node_type, "-", n>>), real_id),
                                          Lower(<<node_type, "_", n>>), real_id),
                                  Lower(<<node_type, "", n>>), real_id)]

\* the resolver with the typed placeholders asked before the sequential ones
ResolveNodeId_TypedFirst(c, node_id) ==
    IF node_id = NoId THEN node_id
    ELSE IF Lower(node_id) \in VertexAliases /\ FirstOfType(c.node_types, "vertex") # NoId
    THEN FirstOfType(c.node_types, "vertex")
    ELSE IF Lower(node_id) \in OutputAliases /\ FirstOfType(c.node_types, "output") # NoId
    THEN FirstOfType(c.node_types, "output")
    ELSE IF Lower(node_id) \in DOMAIN c.typed_map THEN c.typed_map[Lower(node_id)]
    ELSE IF Lower(node_id) \in DOMAIN c.ph_map THEN c.ph_map[Lower(node_id)]
    ELSE node_id

\* _resolve_node_id
ResolveNodeId(c, node_id) ==
    IF node_id = NoId THEN node_id
    ELSE IF Lower(node_id) \in VertexAliases /\ FirstOfType(c.node_types, "vertex") # NoId
    THEN FirstOfType(c.node_types, "vertex")
    ELSE IF Lower(node_id) \in OutputAliases /\ FirstOfType(c.node_types, "output") # NoId
    THEN FirstOfType(c.node_types, "output")
    ELSE IF Lower(node_id) \in DOMAIN c.ph_map THEN c.ph_map[Lower(node_id)]
    ELSE IF Lower(node_id) \in DOMAIN c.typed_map THEN c.typed_map[Lower(node_id)]
    ELSE node_id

----------------------------------------------------------------------------
(* Operation recorder (the tools of _make_tools); each returns [c, ret] *)

\* the reusing branch taking the guessed id out of the free ids
AddNodeReuse_Reserving(c, type, existing) ==
    Let(NewIncrementalId(c, "node"), LAMBDA r :
        LET c1 == [r.c EXCEPT !.ph_map = DictPut(DictPut(@, Lower(r.ret), existing),
                                                 Lower(Nm(type)), existing)]
        IN [c |-> RecordTypedPlaceholder(c1, type, existing), ret |-> existing])

\* add_node, the branch that reuses an existing master node
AddNodeReuse(c, type, existing) ==
    LET c1 == [c EXCEPT !.ph_map = DictPut(DictPut(@, Lower(PeekNextIncrementalId(c)), existing),
                                           Lower(Nm(type)), existing)]
    IN [c |-> RecordTypedPlaceholder(c1, type, existing), ret |-> existing]

\* add_node, the branch that creates a node
AddNodeCreate(c, type) ==
    Let(NewIncrementalId(c, "node"), LAMBDA r :
        LET c1 == [r.c EXCEPT !.operations = Append(@, OpAddNode(r.ret, type)),
                              !.node_types = IF type # "" THEN OPut(@, r.ret, type) ELSE @]
        IN [c |-> RecordTypedPlaceholder(RecordPlaceholderNode(c1, r.ret), type, r.ret),
            ret |-> r.ret])

\* the master node add_node would reuse, NoId when there is none
ExistingSingleton(c, type) ==
    IF type \in SingletonTypes THEN FirstOfType(c.node_types, type) ELSE NoId

\* add_node without the singleton branch
AddNodeTool_NoReuse(c, type) == AddNodeCreate(c, type)

AddNodeTool(c, type) ==
    IF ExistingSingleton(c, type) # NoId
    THEN AddNodeReuse(c, type, ExistingSingleton(c, type))
    ELSE AddNodeCreate(c, type)

RemoveNodeTool(c, id) ==
    [c |-> [c EXCEPT !.operations = Append(@, OpRemoveNode(ResolveNodeId(c, id)))],
     ret |-> NoId]

ConnectNodesTool(c, s, ss, t, ts) ==
    Let(NewIncrementalId(c, "conn"), LAMBDA r :
        [c |-> [r.c EXCEPT !.operations =
                   Append(@, OpAddConnection(r.ret, ResolveNodeId(r.c, s), ss,
                                             ResolveNodeId(r.c, t), ts))],
         ret |-> r.ret])

DisconnectNodesTool(c, s, ss, t, ts) ==
    [c |-> [c EXCEPT !.operations =
                Append(@, OpRemoveConnection(ResolveNodeId(c, s), ss,
                                             ResolveNodeId(c, t), ts))],
     ret |-> NoId]

\* _new_asset_id: f"{prefix}_{uuid}", a fresh name; the log grows with every
\* use, so its length tells the names apart
NewAssetId(c) == <<"asset_uuid", "_", Len(c.operations)>>

\* upload_asset, given ctx.attachments: it raises without an attachment,
\* returns the first asset stored at the request's start when there is one,
\* and else stores the first attachment under a fresh name; base64.b64decode
\* raises there when the data does not decode.  The set of what it may
\* return, [c, ret, put], `put` the ids it wrote to the asset store.
UploadAssetTool(c, attachments) ==
    LET raised == [c |-> c, ret |-> NoId, put |-> {}]
        stored == [c |-> [c EXCEPT !.operations = Append(@, OpUploadAsset(NewAssetId(c)))],
                   ret |-> NewAssetId(c), put |-> {NewAssetId(c)}]
    IN IF attachments = <<>> THEN {raised}
       ELSE IF c.uploaded_attachment_asset_ids # <<>>
       THEN {[c |-> c, ret |-> c.uploaded_attachment_asset_ids[1], put |-> {}]}
       ELSE IF attachments[1] = 0 THEN {raised, stored}
       ELSE {stored}

----------------------------------------------------------------------------
(* Data values.  A value is a tuple tagged by its Python type:            *)
(*   <<"rgb", r, g, b>>   a list of three numbers, in thousandths          *)
(*   <<"hex", r, g, b>>   the string "#rrggbb", by its three bytes         *)
(*   <<"str", s>>         any other string                                 *)
(*   <<"list", ids>>      a list of socket declarations, by their ids      *)
(*   <<"code", shape, sig>>  a GLSL snippet: whether it defines main, only *)
(*                        other routines, or neither, and main's arguments *)

Max3(a, b, c) == IF a >= b /\ a >= c THEN a ELSE IF b >= c THEN b ELSE c
Clamp(lo, hi, v) == IF v < lo THEN lo ELSE IF v > hi THEN hi ELSE v

\* Python's round() of v/1000: half to even
RoundThousandths(v) ==
    LET q == v \div 1000
        r == v % 1000
    IN IF r > 500 THEN q + 1
       ELSE IF r < 500 THEN q
       ELSE IF q % 2 = 0 THEN q ELSE q + 1

\* one channel of _rgba_to_hex / _to_hex: scale, clamp to 0..255, round
Channel(c, mx) ==
    RoundThousandths(Clamp(0, 255000, c * (IF mx <= 1000 THEN 255 ELSE 1)))

\* _rgba_to_hex without the scaling to bytes
RgbaToHex_Unscaled(value) ==
    IF value[1] # "rgb" THEN NoValue ELSE <<"hex", value[2], value[3], value[4]>>

\* _rgba_to_hex: NoValue stands for None
RgbaToHex(value) ==
    IF value[1] # "rgb" THEN NoValue
    ELSE LET mx == Max3(value[2], value[3], value[4])
         IN <<"hex", Channel(value[2], mx), Channel(value[3], mx), Channel(value[4], mx)>>

\* _wrap_custom_function_main: main's signature becomes the declared inputs
\* followed by the declared outputs; a snippet without main gets one
WrapCustomFunctionMain(code, ins, outs) ==
    <<"code", "main", [i |-> ins, o |-> outs]>>

\* update_node_value
UpdateNodeValueTool(c, node_id, data_key, value) ==
    IF data_key = "label" THEN [c |-> c, ret |-> NoId]
    ELSE
    Let(ResolveNodeId(c, node_id), LAMBDA rid :
    Let(RgbaToHex(value), LAMBDA hex_value :
    LET node_type == OGet(c.node_types, rid)
        key0 == IF node_type = "metalReflectance" /\ data_key = "metal"
                THEN "metalType" ELSE data_key
        isCF == node_type = "customFunction"
        c1 == [c EXCEPT
                 !.custom_fn_inputs =
                     IF isCF /\ data_key = "customInputs" /\ value[1] = "list"
                     THEN DictPut(@, rid, value[2]) ELSE @,
                 !.custom_fn_outputs =
                     IF isCF /\ data_key = "customOutputs" /\ value[1] = "list"
                     THEN DictPut(@, rid, value[2]) ELSE @]
        val0 == IF isCF /\ data_key = "code" /\ value[1] = "code"
                THEN WrapCustomFunctionMain(value,
                                            DictGet(c1.custom_fn_inputs, rid, <<>>),
                                            DictGet(c1.custom_fn_outputs, rid, <<>>))
                ELSE value
        isColor == node_type = "color" /\ data_key \in {"color", "value"}
        e_key == IF isColor /\ (value[1] = "hex" \/ hex_value # NoValue)
                 THEN "value" ELSE key0
        e_val == IF isColor /\ value[1] # "hex" /\ hex_value # NoValue
                 THEN hex_value ELSE val0
    IN [c |-> [c1 EXCEPT !.operations = Append(@, OpUpdateNodeData(rid, e_key, e_val))],
        ret |-> NoId]))

----------------------------------------------------------------------------
(* Operation optimizer: _optimize_redundant_texture_sampling *)

\* node_type: nodeId -> nodeType of the add_node operations (the last one wins)
OptNodeType(ops, nid) ==
    IF \E i \in 1..Len(ops) : ops[i].op = "add_node" /\ ops[i].nodeId = nid
                               /\ ops[i].nodeId # NoId /\ ops[i].nodeType # ""
    THEN ops[CHOOSE i \in 1..Len(ops) :
                /\ ops[i].op = "add_node" /\ ops[i].nodeId = nid /\ ops[i].nodeType # ""
                /\ \A j \in (i+1)..Len(ops) :
                      ~(ops[j].op = "add_node" /\ ops[j].nodeId = nid /\ ops[j].nodeType # "")
            ].nodeType
    ELSE ""

\* conns_from[nid] and conns_to[nid], as the indices of the connections in ops
ConnsFrom(ops, nid) ==
    {i \in 1..Len(ops) : ops[i].op = "add_connection" /\ ops[i].sourceNodeId = nid}
ConnsTo(ops, nid) ==
    {i \in 1..Len(ops) : ops[i].op = "add_connection" /\ ops[i].targetNodeId = nid}

MinOf(S) == CHOOSE x \in S : \A y \in S : x <= y

\* next((c for c in inc if c.targetSocketId.lower() == sock), None): 0 for None
FirstInto(ops, nid, sock) ==
    LET S == {i \in ConnsTo(ops, nid) : LowerStr(ops[i].targetSocketId) = sock}
    IN IF S = {} THEN 0 ELSE MinOf(S)

\* the candidates: ids of add_node operations of type sampleTexture2D
OptCandidates(ops) ==
    {ops[i].nodeId : i \in {j \in 1..Len(ops) :
        ops[j].op = "add_node" /\ ops[j].nodeId # NoId
        /\ OptNodeType(ops, ops[j].nodeId) = "sampleTexture2D"}}

\* the loop's body without its checks on the sample node's own consumers and
\* on updates
OptMatches_AnyFanOut(ops, samp_id) ==
    LET tex_in == FirstInto(ops, samp_id, "texture")
        uv_in == FirstInto(ops, samp_id, "uv")
    IN /\ tex_in # 0 /\ uv_in # 0
       /\ ConnsFrom(ops, samp_id) # {}
       /\ OptNodeType(ops, ops[tex_in].sourceNodeId) = "texture2D"
       /\ OptNodeType(ops, ops[uv_in].sourceNodeId) = "uv"

\* the body of the loop over candidates: whether samp_id is rewritten
OptMatches(ops, samp_id) ==
    LET tex_in == FirstInto(ops, samp_id, "texture")
        uv_in == FirstInto(ops, samp_id, "uv")
    IN /\ tex_in # 0 /\ uv_in # 0
       /\ LET tex_id == ops[tex_in].sourceNodeId
              uv_id == ops[uv_in].sourceNodeId
              out == ConnsFrom(ops, samp_id)
              uv_out == ConnsFrom(ops, uv_id)
          IN /\ OptNodeType(ops, tex_id) = "texture2D"
             /\ OptNodeType(ops, uv_id) = "uv"
             /\ LowerStr(ops[tex_in].sourceSocketId) \in {"out", "tex", "texture"}
             /\ LowerStr(ops[uv_in].sourceSocketId) = "out"
             /\ Cardinality(out) = 1
             /\ LowerStr(ops[MinOf(out)].sourceSocketId) \in {"rgba", "out"}
             /\ ~ \E k \in 1..Len(ops) :
                     ops[k].op = "update_node_data" /\ ops[k].nodeId \in {samp_id, uv_id}
             /\ Cardinality(uv_out) = 1
             /\ ops[MinOf(uv_out)].targetNodeId = samp_id

OptMatched(ops) == {s \in OptCandidates(ops) : OptMatches(ops, s)}

\* remove_node_ids, remove_conn_ids (indices) and replacements_by_index
OptRemoveNodeIds(ops) ==
    UNION {{s, ops[FirstInto(ops, s, "uv")].sourceNodeId} : s \in OptMatched(ops)}
OptRemoveConnIdx(ops) ==
    UNION {{FirstInto(ops, s, "texture"), FirstInto(ops, s, "uv"),
            MinOf(ConnsFrom(ops, s))} : s \in OptMatched(ops)}
\* the replacement connection: its id is "conn_opt_<uuid>", a fresh name
OptReplacement(ops, s) ==
    LET tex_in == FirstInto(ops, s, "texture")
        rgba == MinOf(ConnsFrom(ops, s))
    IN OpAddConnection(<<"conn_opt", "_", rgba>>, ops[tex_in].sourceNodeId, "rgba",
                       ops[rgba].targetNodeId, ops[rgba].targetSocketId)

RECURSIVE OptRebuild(_, _)
\* the final loop: what is kept of ops[i..]
OptRebuild(ops, i) ==
    IF i > Len(ops) THEN <<>>
    ELSE LET op == ops[i]
             rest == OptRebuild(ops, i + 1)
             rm == OptRemoveNodeIds(ops)
         IN IF op.op = "add_node" /\ op.nodeId \in rm THEN rest
            ELSE IF op.op = "add_connection"
                    /\ (op.sourceNodeId \in rm \/ op.targetNodeId \in rm) THEN rest
            ELSE IF i \in OptRemoveConnIdx(ops)
            THEN IF \E s \in OptMatched(ops) : MinOf(ConnsFrom(ops, s)) = i
                 THEN <<OptReplacement(ops,
                           CHOOSE s \in OptMatched(ops) : MinOf(ConnsFrom(ops, s)) = i)>>
                      \o rest
                 ELSE rest
            ELSE <<op>> \o rest

OptimizeRedundantTextureSampling(ops) ==
    IF ops = <<>> THEN ops
    ELSE IF OptCandidates(ops) = {} THEN ops
    ELSE IF OptMatched(ops) = {} THEN ops
    ELSE OptRebuild(ops, 1)

----------------------------------------------------------------------------
(* Node catalog: self._definitions_by_type, lower-cased type -> sockets.   *)
(* It is loaded once from the editor's node modules; when their directory  *)
(* is missing the catalog is empty.                                        *)

NoDefs == [t \in {} |-> [inputs |-> {}, outputs |-> {}]]

\* the master sockets the system instructions and the flag template name
StdDefs ==
    [t \in {"output", "vertex", "color", "texture2d", "sampletexture2d", "uv"} |->
        CASE t = "output" -> [inputs |-> {"color", "alpha", "normal", "emission"},
                              outputs |-> {}]
          [] t = "vertex" -> [inputs |-> {"position", "normal", "tangent"},
                              outputs |-> {}]
          [] t = "color" -> [inputs |-> {}, outputs |-> {"out"}]
          [] t = "texture2d" -> [inputs |-> {}, outputs |-> {"out", "rgba"}]
          [] t = "sampletexture2d" -> [inputs |-> {"texture", "uv"},
                                       outputs |-> {"rgba", "r"}]
          [] OTHER -> [inputs |-> {}, outputs |-> {"out"}]]

\* _socket_ids(_def_for(node), kind)
SocketIds(defs, ntype, kind) ==
    IF ntype \in DOMAIN defs
    THEN IF kind = "out" THEN defs[ntype].outputs ELSE defs[ntype].inputs
    ELSE {}

----------------------------------------------------------------------------
(* Operation validator: _validate_ops *)

BlankWarning == [index |-> -1, op |-> "", reason |-> "", nodeId |-> NoId,
                 nodeType |-> "", socketId |-> "",
                 sourceNodeId |-> NoId, targetNodeId |-> NoId]
Warn(i, op, reason) == [BlankWarning EXCEPT !.index = i, !.op = op.op, !.reason = reason]

\* the walk's state before the first operation; indices are 0-based as in the code
ValidateStart(c) ==
    [known_ids |-> OKeys(c.node_types),
     known_types |-> [k \in OKeys(c.node_types) |-> OGet(c.node_types, k)],
     custom_ins |-> c.custom_fn_inputs,
     custom_outs |-> c.custom_fn_outputs,
     validated |-> <<>>,
     warnings |-> <<>>]

\* the first id whose type, stripped and lower-cased, is the master type
MasterId(c, mtype) ==
    IF \E i \in 1..Len(c.node_types) : LowerStr(c.node_types[i].type) = mtype
    THEN c.node_types[CHOOSE i \in 1..Len(c.node_types) :
            /\ LowerStr(c.node_types[i].type) = mtype
            /\ \A j \in 1..(i-1) : LowerStr(c.node_types[j].type) # mtype].id
    ELSE NoId

\* _remap_master_alias
RemapMasterAlias(c, nid) ==
    IF nid = NoId THEN nid
    ELSE Let(MasterId(c, "vertex"), LAMBDA vertex_master_id :
         Let(MasterId(c, "output"), LAMBDA output_master_id :
            IF Lower(nid) \in VertexAliases /\ vertex_master_id # NoId
            THEN vertex_master_id
            ELSE IF Lower(nid) \in OutputAliases /\ output_master_id # NoId
            THEN output_master_id
            ELSE nid))

\* _node_type
ValNodeType(st, nid) == LowerStr(DictGet(st.known_types, nid, ""))

Emit(st, op) == [st EXCEPT !.validated = Append(@, op)]
Drop(st, w) == [st EXCEPT !.warnings = Append(@, w)]

ValAddNode(defs, st, i, op) ==
    IF op.nodeId = NoId THEN Drop(st, Warn(i, op, "add_node missing nodeId"))
    ELSE LET st1 == [st EXCEPT !.known_ids = @ \cup {op.nodeId}]
             st2 == IF op.nodeType # ""
                    THEN LET st3 == [st1 EXCEPT !.known_types = DictPut(@, op.nodeId, op.nodeType)]
                         IN IF LowerStr(op.nodeType) \notin DOMAIN defs
                            THEN Drop(st3, [Warn(i, op, "unknown nodeType (no definition found)")
                                              EXCEPT !.nodeType = op.nodeType])
                            ELSE st3
                    ELSE Drop(st1, [Warn(i, op, "add_node missing nodeType")
                                      EXCEPT !.nodeId = op.nodeId])
         IN Emit(st2, op)

\* the customFunction bookkeeping of an update_node_data; returns [st, op]
ValTrackCustom(c, st, op) ==
    Let(RemapMasterAlias(c, op.nodeId), LAMBDA nid0 :
    LET isCF == ValNodeType(st, nid0) = "customfunction"
        \* the code compares the key, not lower-cased, with lower-case names
        st1 == [st EXCEPT
                  !.custom_ins = IF isCF /\ op.dataKey = "custominputs" /\ op.dataValue[1] = "list"
                                 THEN DictPut(@, nid0, op.dataValue[2]) ELSE @,
                  !.custom_outs = IF isCF /\ op.dataKey = "customoutputs" /\ op.dataValue[1] = "list"
                                  THEN DictPut(@, nid0, op.dataValue[2]) ELSE @]
        op1 == IF isCF /\ op.dataKey = "code" /\ op.dataValue[1] = "code"
               THEN [op EXCEPT !.dataValue =
                        WrapCustomFunctionMain(op.dataValue,
                                               DictGet(st1.custom_ins, nid0, <<>>),
                                               DictGet(st1.custom_outs, nid0, <<>>))]
               ELSE op
    IN [st |-> st1, op |-> op1])

\* the same branch with a remove_node that leaves the id among the known ids
ValNodeOp_KeepsRemoved(c, st0, i, op0) ==
    Let(IF op0.op = "update_node_data" THEN ValTrackCustom(c, st0, op0)
        ELSE [st |-> st0, op |-> op0], LAMBDA t :
    Let(RemapMasterAlias(c, t.op.nodeId), LAMBDA nid :
    LET st == t.st
        op == [t.op EXCEPT !.nodeId = nid]
    IN IF nid = NoId THEN Drop(st, Warn(i, op, "missing nodeId"))
       ELSE IF nid \notin st.known_ids
       THEN Drop(st, [Warn(i, op, "references unknown nodeId") EXCEPT !.nodeId = nid])
       ELSE Emit(st, op)))

\* update_node_data, move_node, remove_node
ValNodeOp(c, st0, i, op0) ==
    Let(IF op0.op = "update_node_data" THEN ValTrackCustom(c, st0, op0)
        ELSE [st |-> st0, op |-> op0], LAMBDA t :
    Let(RemapMasterAlias(c, t.op.nodeId), LAMBDA nid :
    LET st == t.st
        op == [t.op EXCEPT !.nodeId = nid]
    IN IF nid = NoId THEN Drop(st, Warn(i, op, "missing nodeId"))
       ELSE IF nid \notin st.known_ids
       THEN Drop(st, [Warn(i, op, "references unknown nodeId") EXCEPT !.nodeId = nid])
       ELSE IF op.op = "remove_node"
       THEN [Emit(st, op) EXCEPT !.known_ids = @ \ {nid},
                                 !.known_types = [k \in DOMAIN @ \ {nid} |-> @[k]]]
       ELSE Emit(st, op)))

\* the add_connection branch without its look-up in the known ids
ValAddConnection_Unchecked(c, defs, st, i, op0) ==
    LET sid == RemapMasterAlias(c, op0.sourceNodeId)
        tid == RemapMasterAlias(c, op0.targetNodeId)
        op == [op0 EXCEPT !.sourceNodeId = sid, !.targetNodeId = tid]
    IN IF sid = NoId \/ tid = NoId
       THEN Drop(st, Warn(i, op, "add_connection missing source/target nodeId"))
       ELSE IF op.sourceSocketId = "" \/ op.targetSocketId = ""
       THEN Drop(st, Warn(i, op, "add_connection missing source/target socketId"))
       ELSE Emit(st, op)

ValAddConnection(c, defs, st, i, op0) ==
    Let(RemapMasterAlias(c, op0.sourceNodeId), LAMBDA sid :
    Let(RemapMasterAlias(c, op0.targetNodeId), LAMBDA tid :
    LET op == [op0 EXCEPT !.sourceNodeId = sid, !.targetNodeId = tid]
        ss == op.sourceSocketId
        ts == op.targetSocketId
        s_type == ValNodeType(st, sid)
        t_type == ValNodeType(st, tid)
        valid_out == SocketIds(defs, s_type, "out")
        valid_in == SocketIds(defs, t_type, "in")
    IN IF sid = NoId \/ tid = NoId
       THEN Drop(st, Warn(i, op, "add_connection missing source/target nodeId"))
       ELSE IF sid \notin st.known_ids \/ tid \notin st.known_ids
       THEN Drop(st, [Warn(i, op, "add_connection references unknown nodeId")
                        EXCEPT !.sourceNodeId = sid, !.targetNodeId = tid])
       ELSE IF ss = "" \/ ts = ""
       THEN Drop(st, Warn(i, op, "add_connection missing source/target socketId"))
       ELSE IF s_type \in SingletonTypes /\ valid_out # {} /\ ss \notin valid_out
       THEN Drop(st, [Warn(i, op, "invalid master source socketId")
                        EXCEPT !.nodeType = s_type, !.socketId = ss])
       ELSE IF t_type \in SingletonTypes /\ valid_in # {} /\ ts \notin valid_in
       THEN Drop(st, [Warn(i, op, "invalid master target socketId")
                        EXCEPT !.nodeType = t_type, !.socketId = ts])
       ELSE Emit(st, op)))

\* request_previews: every item is forced to a single PNG frame
ValPreviews(st, op) ==
    Emit(st, [op EXCEPT !.previewRequests =
                 [k \in 1..Len(@) |-> [@[k] EXCEPT !.kind = "png", !.durationSec = "",
                                                   !.fps = ""]]])

\* one step of the walk, on the operation at 0-based index i
ValStep(c, defs, st, i, op) ==
    CASE op.op = "request_previews" -> ValPreviews(st, op)
      [] op.op = "add_node" -> ValAddNode(defs, st, i, op)
      [] op.op \in {"update_node_data", "move_node", "remove_node"} -> ValNodeOp(c, st, i, op)
      [] op.op = "add_connection" -> ValAddConnection(c, defs, st, i, op)
      [] OTHER -> Emit(st, op)

RECURSIVE ValWalk(_, _, _, _, _)
\* the loop over ops from the n-th on, entered with the walk's state st
ValWalk(c, defs, ops, n, st) ==
    IF n > Len(ops) THEN st
    ELSE Let(ValStep(c, defs, st, n - 1, ops[n]), LAMBDA st1 :
            ValWalk(c, defs, ops, n + 1, st1))

\* _validate_ops: [ops, warnings]
ValidateOps(c, defs, ops) ==
    Let(ValWalk(c, defs, ops, 1, ValidateStart(c)), LAMBDA st :
        [ops |-> st.validated, warnings |-> st.warnings])

----------------------------------------------------------------------------
(* Fallback planner, after the decode: _direct_plan_ops from `data` on.    *)
(* A planning item is a dict: a function from key names to values.  Keys   *)
(* that hold node or connection ids hold triples, "dataValue"/"value" hold *)
(* tagged values, every other key holds a string.                          *)

GetId(item, k) == IF k \in DOMAIN item THEN item[k] ELSE NoId
GetStr(item, k) == IF k \in DOMAIN item THEN item[k] ELSE ""
GetVal(item, k) == IF k \in DOMAIN item THEN item[k] ELSE NoValue
Has(item, k) == k \in DOMAIN item
Put(item, k, v) == (k :> v) @@ item
Pop(item, k) == [x \in DOMAIN item \ {k} |-> item[x]]

\* _snk: copy src to dst unless dst is there
Snk(item, src, dst) ==
    IF Has(item, dst) THEN item
    ELSE IF Has(item, src) THEN Put(item, dst, item[src]) ELSE item

\* the discriminator: op, else tool, else name, else function.name
ItemKind(item) ==
    IF GetStr(item, "op") # "" THEN item["op"]
    ELSE IF GetStr(item, "tool") # "" THEN item["tool"]
    ELSE IF GetStr(item, "name") # "" THEN item["name"]
    ELSE GetStr(item, "function_name")

SnkEndpoints(item) ==
    Snk(Snk(Snk(Snk(item, "source_node_id", "sourceNodeId"),
                "source_socket_id", "sourceSocketId"),
            "target_node_id", "targetNodeId"),
        "target_socket_id", "targetSocketId")

IdToConnectionId(item) ==
    IF ~Has(item, "connectionId") /\ Has(item, "id")
    THEN Put(item, "connectionId", item["id"]) ELSE item

IdToNodeId(item) ==
    IF GetId(item, "nodeId") = NoId /\ GetId(item, "id") # NoId
    THEN Put(item, "nodeId", item["id"]) ELSE item

TypeToNodeType(item) ==
    IF GetStr(item, "nodeType") = "" /\ GetStr(item, "type") # ""
    THEN Put(item, "nodeType", item["type"]) ELSE item

\* _map_tool_style
MapToolStyle(item) ==
    Let(LET k == ItemKind(item) IN
          CASE k \in {"connect_nodes", "connectNodes"} ->
                 IdToConnectionId(SnkEndpoints(Put(item, "op", "add_connection")))
            [] k \in {"disconnect_nodes", "disconnectNodes"} ->
                 IdToConnectionId(SnkEndpoints(Put(item, "op", "remove_connection")))
            [] k \in {"update_node_value", "updateNodeValue"} ->
                 LET o == Snk(Snk(Put(item, "op", "update_node_data"), "node_id", "nodeId"),
                              "data_key", "dataKey")
                 IN IF Has(o, "dataValue") THEN o ELSE Put(o, "dataValue", GetVal(o, "value"))
            [] k \in {"add_node", "addNode"} ->
                 IdToNodeId(TypeToNodeType(Put(item, "op", "add_node")))
            [] k \in {"remove_node", "removeNode"} ->
                 IdToNodeId(Snk(Put(item, "op", "remove_node"), "node_id", "nodeId"))
            [] k \in {"move_node", "moveNode"} ->
                 Snk(Put(item, "op", "move_node"), "node_id", "nodeId")
            [] k \in {"request_previews", "requestPreviews"} ->
                 Snk(Put(item, "op", "request_previews"), "requests", "previewRequests")
            [] k \in {"upload_asset", "uploadAsset"} -> Put(item, "op", "upload_asset")
            [] OTHER -> item,
        LAMBDA out :
          IF GetStr(out, "op") = "add_node" THEN Pop(Pop(out, "type"), "id")
          ELSE IF GetStr(out, "op") \in {"add_connection", "remove_connection"}
          THEN Pop(out, "id")
          ELSE out)

\* the per-kind aliasing of the main loop, after _map_tool_style
NormalizeItem(item2) ==
    CASE GetStr(item2, "op") = "add_node" -> Pop(Pop(IdToNodeId(TypeToNodeType(item2)), "type"), "id")
      [] GetStr(item2, "op") = "add_connection" ->
           Pop(IF GetId(item2, "connectionId") = NoId /\ GetId(item2, "id") # NoId
               THEN Put(item2, "connectionId", item2["id"]) ELSE item2, "id")
      [] GetStr(item2, "op") = "remove_node" -> Pop(IdToNodeId(item2), "id")
      [] OTHER -> item2

\* models.GraphOperation: the kinds its `op` field accepts
OpLiteral == {"add_node", "remove_node", "add_connection", "remove_connection",
              "update_node_data", "move_node", "upload_asset", "generate_image",
              "edit_image", "request_previews"}

\* a GraphOperation that accepts any `op`
ItemConstructs_Any(item2) == TRUE

\* models.PreviewRequest(**raw) raises without a nodeId and on a kind,
\* previewMode or previewObject outside its literal
PreviewConstructs(raw) ==
    /\ Has(raw, "nodeId")
    /\ Has(raw, "kind") => raw["kind"] \in {"png", "sequence"}
    /\ Has(raw, "previewMode") => raw["previewMode"] \in {"2d", "3d"}
    /\ Has(raw, "previewObject") => raw["previewObject"] \in {"sphere", "box", "quad"}

\* models.PreviewRequest(**raw): "" stands for None
PreviewRequest(raw) ==
    [nodeId |-> GetId(raw, "nodeId"),
     kind |-> IF Has(raw, "kind") THEN raw["kind"] ELSE "png",
     previewMode |-> GetStr(raw, "previewMode"),
     previewObject |-> GetStr(raw, "previewObject"),
     durationSec |-> GetStr(raw, "durationSec"),
     fps |-> GetStr(raw, "fps")]

GetSeq(item, k) == IF k \in DOMAIN item THEN item[k] ELSE <<>>

\* GraphOperation(**item2) raises unless `op` is one of the literal's kinds
\* and every item of previewRequests makes a PreviewRequest
ItemConstructs(item2) ==
    /\ GetStr(item2, "op") \in OpLiteral
    /\ \A k \in 1..Len(GetSeq(item2, "previewRequests")) :
          PreviewConstructs(item2["previewRequests"][k])

\* GraphOperation(**item2): unknown keys are ignored
ItemToOp(item2) ==
    [BlankOp EXCEPT !.op = GetStr(item2, "op"),
                    !.nodeId = GetId(item2, "nodeId"),
                    !.nodeType = GetStr(item2, "nodeType"),
                    !.connectionId = GetId(item2, "connectionId"),
                    !.sourceNodeId = GetId(item2, "sourceNodeId"),
                    !.sourceSocketId = GetStr(item2, "sourceSocketId"),
                    !.targetNodeId = GetId(item2, "targetNodeId"),
                    !.targetSocketId = GetStr(item2, "targetSocketId"),
                    !.dataKey = GetStr(item2, "dataKey"),
                    !.dataValue = GetVal(item2, "dataValue"),
                    !.assetId = GetId(item2, "assetId"),
                    !.previewRequests =
                        [k \in 1..Len(GetSeq(item2, "previewRequests")) |->
                            PreviewRequest(item2["previewRequests"][k])]]

\* "Keep ops <= 60": ops_in[:60]
MaxPlanOps == 60

RECURSIVE ParseItems(_)
\* the main loop over ops_in: items that do not construct are skipped
ParseItems(items) ==
    IF items = <<>> THEN <<>>
    ELSE Let(NormalizeItem(MapToolStyle(Head(items))), LAMBDA item2 :
            (IF ItemConstructs(item2) THEN <<ItemToOp(item2)>> ELSE <<>>)
            \o ParseItems(Tail(items)))

----------------------------------------------------------------------------
(* _direct_plan_ops: sanitizing the parsed operations *)

FirstN(seq, n) == SubSeq(seq, 1, IF Len(seq) < n THEN Len(seq) ELSE n)

\* _find_master_id: looks at the snapshot only
FindMasterId(c, master_type) ==
    LET g == c.graph_nodes
    IN IF \E i \in 1..Len(g) : LowerStr(g[i].type) = master_type /\ g[i].id # NoId
       THEN g[CHOOSE i \in 1..Len(g) :
               /\ LowerStr(g[i].type) = master_type /\ g[i].id # NoId
               /\ \A j \in 1..(i-1) : ~(LowerStr(g[j].type) = master_type /\ g[j].id # NoId)].id
       ELSE NoId

\* the master a planned add_node duplicates, NoId when it duplicates none
DuplicatedMaster(c, op) ==
    IF op.op # "add_node" \/ op.nodeId = NoId THEN NoId
    ELSE Let(FindMasterId(c, "output"), LAMBDA existing_output_id :
         Let(FindMasterId(c, "vertex"), LAMBDA existing_vertex_id :
            IF LowerStr(op.nodeType) = "vertex" /\ existing_vertex_id # NoId
            THEN existing_vertex_id
            ELSE IF LowerStr(op.nodeType) = "output" /\ existing_output_id # NoId
            THEN existing_output_id
            ELSE NoId))

\* drop_node_ids
DropNodeIds(c, ops) ==
    {ops[i].nodeId : i \in {j \in 1..Len(ops) : DuplicatedMaster(c, ops[j]) # NoId}}

\* a remap that leaves every id as the document wrote it
RemapNodeId_AsWritten(c, ops, nid) == nid

\* remap_node_ids.get(nid, nid): a later add_node of the same id overwrites
RemapNodeId(c, ops, nid) ==
    IF nid \in DropNodeIds(c, ops)
    THEN DuplicatedMaster(c, ops[CHOOSE i \in 1..Len(ops) :
             /\ ops[i].nodeId = nid /\ DuplicatedMaster(c, ops[i]) # NoId
             /\ \A j \in (i+1)..Len(ops) :
                   ~(ops[j].nodeId = nid /\ DuplicatedMaster(c, ops[j]) # NoId)])
    ELSE nid

\* "Ensure add_node always has nodeId": f"node_{uuid}", a fresh name
FillNodeIds(ops) ==
    [i \in 1..Len(ops) |->
        IF ops[i].op = "add_node" /\ ops[i].nodeId = NoId
        THEN [ops[i] EXCEPT !.nodeId = <<"node_uuid", "_", i>>]
        ELSE ops[i]]

\* color_node_ids
ColorNodeIds(c, ops) ==
    {c.graph_nodes[i].id : i \in {j \in 1..Len(c.graph_nodes) :
        LowerStr(c.graph_nodes[j].type) = "color" /\ c.graph_nodes[j].id # NoId}}
    \cup {ops[i].nodeId : i \in {j \in 1..Len(ops) :
        ops[j].op = "add_node" /\ LowerStr(ops[j].nodeType) = "color" /\ ops[j].nodeId # NoId}}

\* one operation of the sanitizing loop, given the filled list `ops` and
\* the drop set and remap computed before the ids were filled in
SanitizeOp(c, ops0, ops, op) ==
    Let([op EXCEPT !.sourceNodeId = IF op.op \in {"add_connection", "remove_connection"}
                                    THEN RemapNodeId(c, ops0, @) ELSE @,
                   !.targetNodeId = IF op.op \in {"add_connection", "remove_connection"}
                                    THEN RemapNodeId(c, ops0, @) ELSE @,
                   !.nodeId = IF op.op \in {"update_node_data", "move_node", "remove_node"}
                              THEN RemapNodeId(c, ops0, @) ELSE @],
        LAMBDA op1 :
          Let(RgbaToHex(op1.dataValue), LAMBDA hx :
            IF op1.op = "update_node_data" /\ op1.nodeId # NoId
               /\ op1.nodeId \in ColorNodeIds(c, ops)
               /\ LowerStr(op1.dataKey) \in {"value", "color"}
               /\ hx # NoValue
            THEN [op1 EXCEPT !.dataKey = "value", !.dataValue = hx]
            ELSE op1))

RECURSIVE SanitizeFrom(_, _, _, _)
SanitizeFrom(c, ops0, ops, i) ==
    IF i > Len(ops) THEN <<>>
    ELSE IF ops[i].op = "add_node" /\ LowerStr(ops[i].nodeType) \in SingletonTypes
            /\ ops[i].nodeId \in DropNodeIds(c, ops0)
    THEN SanitizeFrom(c, ops0, ops, i + 1)
    ELSE <<SanitizeOp(c, ops0, ops, ops[i])>> \o SanitizeFrom(c, ops0, ops, i + 1)

SanitizeOps(c, ops_out) == SanitizeFrom(c, ops_out, FillNodeIds(ops_out), 1)

\* A text is the sequence of its pieces: every character that matters to the
\* parser is a piece of its own, a run of other characters is one piece.
NL == "NL"
SP == "SP"
IsSpace(tok) == tok \in {NL, SP}

RECURSIVE LStrip(_)
LStrip(t) == IF t # <<>> /\ IsSpace(Head(t)) THEN LStrip(Tail(t)) ELSE t
RECURSIVE RStrip(_)
RStrip(t) == IF t # <<>> /\ IsSpace(t[Len(t)]) THEN RStrip(SubSeq(t, 1, Len(t) - 1)) ELSE t
\* str.strip()
StripText(t) == RStrip(LStrip(t))

\* What the planner's reply decoded to (`data`):
\*   [kind |-> "dict", message, operations]  an object; message is a text,
\*        operations is the list under "operations", else under "ops"
\*   [kind |-> "list", operations]           a bare array
\*   [kind |-> "none", raw]                  nothing decoded, repair included
\*   [kind |-> "scalar", truthy]             a number, a string or a boolean
\* The result is [raised, msg, ops].
DirectPlanFromData(c, data) ==
    CASE data.kind = "scalar" /\ data.truthy ->
           \* (data or {}).get: a truthy scalar has no .get
           [raised |-> TRUE, msg |-> <<>>, ops |-> <<>>]
      [] data.kind = "scalar" /\ ~data.truthy -> [raised |-> FALSE, msg |-> <<>>, ops |-> <<>>]
      [] data.kind = "none" -> [raised |-> FALSE, msg |-> StripText(data.raw), ops |-> <<>>]
      [] data.kind = "list" ->
           [raised |-> FALSE, msg |-> <<>>,
            ops |-> SanitizeOps(c, ParseItems(FirstN(data.operations, MaxPlanOps)))]
      [] OTHER ->
           Let(ParseItems(FirstN(data.operations, MaxPlanOps)), LAMBDA ops_out :
           Let(StripText(data.message), LAMBDA msg :
              [raised |-> FALSE,
               msg |-> IF data.operations # <<>> /\ ops_out = <<>> /\ msg = <<>>
                       THEN <<"Parsed JSON but could not parse any operations.">>
                       ELSE msg,
               ops |-> SanitizeOps(c, ops_out)]))

----------------------------------------------------------------------------
(* Helpers of process_request *)

RECURSIVE SelectOps(_, _)
\* [op for op in ops if op.op in kinds]
SelectOps(ops, kinds) ==
    IF ops = <<>> THEN <<>>
    ELSE (IF Head(ops).op \in kinds THEN <<Head(ops)>> ELSE <<>>) \o SelectOps(Tail(ops), kinds)

AllKinds == OpLiteral
UploadOps(ops) == SelectOps(ops, {"upload_asset"})
\* the operations that are not upload_asset
NonUploadOps(ops) == SelectOps(ops, {ops[i].op : i \in 1..Len(ops)} \ {"upload_asset"})

\* The latest user texts the model draws from, with what the substring
\* tests of _should_retry_empty_ops and _template_flag_wave_ops find in each.
UserTexts == {"", "add a red color", "why is it dark?", "make the flag wave"}
\* any(k in t for k in ("add ", "create", "connect", "fix", "rot", "move", ...))
Actionish(t) == t \in {"add a red color", "how do I add a color?"}
\* ("?" in t) or t.startswith(("por que", "porque", "why ", "how ", "como "))
LooksLikeQuestion(t) == t \in {"why is it dark?", "how do I add a color?"}
\* "flag"/"bandera" and one of "wave", "waving", "move", "wind", ...
IsFlagMotion(t) == t \in {"make the flag wave"}

\* the retry decision without the look at the mode
ShouldRetryEmptyOps_AnyMode(m, user_text, ops) ==
    LET meaningful == SelectOps(ops, {ops[i].op : i \in 1..Len(ops)}
                                      \ {"upload_asset", "request_previews"})
        has_wiring_or_edit ==
            \E i \in 1..Len(meaningful) :
                meaningful[i].op \in {"add_connection", "remove_connection",
                                      "update_node_data", "remove_node", "move_node"}
        add_nodes == Len(SelectOps(meaningful, {"add_node"}))
    IN IF has_wiring_or_edit THEN FALSE
       ELSE IF meaningful # <<>> /\ add_nodes > 1 THEN FALSE
       ELSE IF user_text = "" THEN FALSE
       ELSE IF LooksLikeQuestion(user_text) /\ ~Actionish(user_text) THEN FALSE
       ELSE TRUE

\* _should_retry_empty_ops, with LUMINA_RETRY_EMPTY_OPS at its default
ShouldRetryEmptyOps(m, user_text, ops) ==
    LET meaningful == SelectOps(ops, {ops[i].op : i \in 1..Len(ops)}
                                      \ {"upload_asset", "request_previews"})
        has_wiring_or_edit ==
            \E i \in 1..Len(meaningful) :
                meaningful[i].op \in {"add_connection", "remove_connection",
                                      "update_node_data", "remove_node", "move_node"}
        add_nodes == Len(SelectOps(meaningful, {"add_node"}))
    IN IF m = "consultant" THEN FALSE
       ELSE IF has_wiring_or_edit THEN FALSE
       ELSE IF meaningful # <<>> /\ add_nodes > 1 THEN FALSE
       ELSE IF meaningful # <<>> /\ ~(add_nodes <= 1) THEN FALSE
       ELSE IF user_text = "" THEN FALSE
       ELSE IF LooksLikeQuestion(user_text) /\ ~Actionish(user_text) THEN FALSE
       ELSE TRUE

\* A message is the sequence of its non-empty parts; "" is <<>>.
Msg(str) == IF str = "" THEN <<>> ELSE <<str>>

\* _fallback_message_from_ops
FallbackMessageFromOps(ops) ==
    IF ops = <<>> THEN <<"I didn't get a textual response">>
    ELSE IF UploadOps(ops) # <<>> /\ Len(ops) = Len(UploadOps(ops)) THEN <<"Asset uploaded">>
    ELSE <<"Applied operation(s)">>

\* the "[Validator] Dropped n invalid op(s)" note
WithValidatorNote(message, before_len, v) ==
    IF v.warnings # <<>> /\ before_len - Len(v.ops) > 0
    THEN message \o <<"[Validator] Dropped invalid op(s)">>
    ELSE message

\* the auto-injection of the attachment into the first texture node
TextureTypes == {"texture2D", "sampleTexture2D", "texture2DAsset"}
InjectTextureAsset(ops, asset_id) ==
    LET explicitly_set ==
            {ops[i].nodeId : i \in {j \in 1..Len(ops) :
                ops[j].op = "update_node_data" /\ LowerStr(ops[j].dataKey) = "textureasset"
                /\ ops[j].nodeId # NoId}}
        cand == {i \in 1..Len(ops) : ops[i].op = "add_node" /\ ops[i].nodeType \in TextureTypes
                                      /\ ops[i].nodeId \notin explicitly_set}
    IN IF asset_id = NoId \/ cand = {} THEN ops
       ELSE Append(ops, OpUpdateNodeData(ops[MinOf(cand)].nodeId, "textureAsset",
                                         <<"asset", asset_id>>))

----------------------------------------------------------------------------
(* _template_flag_wave_ops *)

TplNodes == <<"time", "uv", "split", "float", "float", "float", "multiply", "multiply",
              "add", "noiseSineWave", "multiply", "multiply", "position", "normal",
              "multiply", "add">>
\* uuid-based ids: fresh names, one per node and per connection of the template
TplNodeId(k) == <<"node_uuid", "_", k>>
TplConnId(k) == <<"conn_uuid", "_", k>>
TplUpdates == <<<<4, "value", <<"num", 1000>>>>, <<5, "value", <<"num", 6000>>>>,
                <<6, "value", <<"num", 150>>>>, <<13, "space", <<"str", "Object">>>>,
                <<14, "space", <<"str", "Object">>>>>>
TplConns == <<<<2, "out", 3, "in">>, <<1, "out", 7, "a">>, <<4, "out", 7, "b">>,
              <<3, "r", 8, "a">>, <<5, "out", 8, "b">>, <<7, "out", 9, "a">>,
              <<8, "out", 9, "b">>, <<9, "out", 10, "in">>, <<10, "out", 11, "a">>,
              <<6, "out", 11, "b">>, <<11, "out", 12, "a">>, <<3, "r", 12, "b">>,
              <<14, "out", 15, "a">>, <<12, "out", 15, "b">>, <<13, "out", 16, "a">>,
              <<15, "out", 16, "b">>>>

RECURSIVE TplRegister(_, _)
\* add(): ctx.node_types[nid] = node_type, for the first k template nodes
TplRegister(od, k) ==
    IF k = 0 THEN od ELSE OPut(TplRegister(od, k - 1), TplNodeId(k), TplNodes[k])

\* returns [c, ops]
TemplateFlagWaveOps(c, user_text) ==
    LET vertex_master_id ==
            IF \E i \in 1..Len(c.node_types) : LowerStr(c.node_types[i].type) = "vertex"
            THEN c.node_types[CHOOSE i \in 1..Len(c.node_types) :
                    /\ LowerStr(c.node_types[i].type) = "vertex"
                    /\ \A j \in 1..(i-1) : LowerStr(c.node_types[j].type) # "vertex"].id
            ELSE NoId
    IN IF user_text = "" \/ ~IsFlagMotion(user_text) \/ vertex_master_id = NoId
       THEN [c |-> c, ops |-> <<>>]
       ELSE [c |-> [c EXCEPT !.node_types = TplRegister(@, Len(TplNodes))],
             ops |-> [k \in 1..Len(TplNodes) |-> OpAddNode(TplNodeId(k), TplNodes[k])]
                     \o [k \in 1..Len(TplUpdates) |->
                            OpUpdateNodeData(TplNodeId(TplUpdates[k][1]), TplUpdates[k][2],
                                             TplUpdates[k][3])]
                     \o [k \in 1..Len(TplConns) |->
                            OpAddConnection(TplConnId(k), TplNodeId(TplConns[k][1]),
                                            TplConns[k][2], TplNodeId(TplConns[k][3]),
                                            TplConns[k][4])]
                     \o <<OpAddConnection(TplConnId(Len(TplConns) + 1), TplNodeId(16), "out",
                                          vertex_master_id, "position")>>]

----------------------------------------------------------------------------
(* process_request: attachments, routing *)

\* An inline attachment is the hash of its decoded bytes; 0 stands for data
\* that does not decode or decodes to nothing.  A negative number -h is a
\* node preview capture (kind "preview") whose bytes hash to h.
MaxStoredAttachments == 3

\* user_attachments: the attachments of kind "user"
UserAttachments(atts) == SelectSeq(atts, LAMBDA a : a >= 0)
\* the hash of an attachment's bytes
ContentOf(a) == IF a < 0 THEN -a ELSE a

RECURSIVE UniqueAttachments(_, _)
\* the `unique` list: first occurrences of valid attachments, at most three
UniqueAttachments(atts, unique) ==
    IF atts = <<>> \/ Len(unique) >= MaxStoredAttachments THEN unique
    ELSE IF Head(atts) = 0 \/ \E i \in 1..Len(unique) : unique[i] = Head(atts)
    THEN UniqueAttachments(Tail(atts), unique)
    ELSE UniqueAttachments(Tail(atts), Append(unique, Head(atts)))

AssetId(h) == <<"asset", "_", h>>

\* the upload loop at the start of process_request
PersistAttachments(c, atts) ==
    LET unique == UniqueAttachments(UserAttachments(atts), <<>>)
        ids == [i \in 1..Len(unique) |-> AssetId(unique[i])]
    IN [c EXCEPT !.uploaded_attachment_asset_ids = @ \o ids,
                 !.operations = @ \o [i \in 1..Len(ids) |-> OpUploadAsset(ids[i])]]

\* _pick_attachment_asset_id, for texts that name no ordinal
PickAttachmentAssetId(c) ==
    IF c.uploaded_attachment_asset_ids = <<>> THEN NoId
    ELSE c.uploaded_attachment_asset_ids[1]

\* _normalize_mode
NormalizeMode(m) ==
    CASE m \in {"architect", "generategraph", "newgraph"} -> "architect"
      [] m \in {"editor", "edit", "editgraph"} -> "editor"
      [] m \in {"refiner", "refine", "repair", "lint"} -> "refiner"
      [] m \in {"consultant", "ask", "help"} -> "consultant"
      [] OTHER -> m

\* _lint_graph_dict and _is_lint_critical, on a snapshot without connections:
\* the one critical finding is the missing fragment master
LintCritical(g) == ~ \E i \in 1..Len(g) : g[i].type = "output"

\* a routing in which a critical finding overrides a slash command too
FinalMode_LinterFirst(m, explicit, g) ==
    IF LintCritical(g) THEN "refiner" ELSE NormalizeMode(m)

\* the mode process_request settles on
FinalMode(m, explicit, g) ==
    IF ~explicit /\ LintCritical(g) THEN "refiner" ELSE NormalizeMode(m)

\* _route_intent's use of the classifier's answer; "raise" is a failed call
RoutedIntent(answer) ==
    IF answer \in {"architect", "editor", "refiner", "consultant"} THEN answer ELSE "editor"

----------------------------------------------------------------------------
(* process_request: the tiers.  Each operator below is the straight-line    *)
(* code between two model calls; it returns the locals it leaves behind:    *)
(* [pc, c, message, upload_ops, resp, tags].                                 *)

NoResp == [status |-> "pending", message |-> <<>>, operations |-> <<>>]
Respond(status, message, ops) == [status |-> status, message |-> message, operations |-> ops]

Outcome(p, c, message, upload_ops, r, tags) ==
    [pc |-> p, c |-> c, message |-> message, upload_ops |-> upload_ops, resp |-> r, tags |-> tags]

\* the deterministic template tier and the return that follows it
TemplateTier(c, message, upload_ops, user_text) ==
    IF NonUploadOps(c.operations) = <<>> /\ user_text # ""
    THEN Let(TemplateFlagWaveOps(c, user_text), LAMBDA t :
            IF t.ops # <<>>
            THEN Let(upload_ops \o t.ops, LAMBDA merged :
                 Let(ValidateOps(t.c, definitions, merged), LAMBDA v :
                 Let(WithValidatorNote(
                         IF message # <<>> THEN message
                         ELSE <<"Created a simple flag waving vertex displacement.">>,
                         Len(merged), v), LAMBDA m :
                    Outcome("done", [t.c EXCEPT !.operations = v.ops], m, upload_ops,
                            Respond("ok", m, v.ops), <<"TEMPLATE_FALLBACK">>))))
            ELSE Outcome("done", t.c, message, upload_ops,
                         Respond("ok", message, t.c.operations), <<>>))
    ELSE Outcome("done", c, message, upload_ops, Respond("ok", message, c.operations), <<>>)

\* after the tool-calling run: inject, optimize, validate, pick the next tier
AfterPrimary(c, text, m, user_text) ==
    Let(InjectTextureAsset(c.operations, PickAttachmentAssetId(c)), LAMBDA ops1 :
    Let(OptimizeRedundantTextureSampling(ops1), LAMBDA ops2 :
    Let(ValidateOps(c, definitions, ops2), LAMBDA v :
    Let(UploadOps(v.ops), LAMBDA upload_ops :
    Let(WithValidatorNote(IF text # "" THEN <<text>> ELSE FallbackMessageFromOps(v.ops),
                          Len(ops2), v), LAMBDA message :
    LET c1 == [c EXCEPT !.operations = v.ops]
        adk_empty == text = "" /\ NonUploadOps(v.ops) = <<>>
    IN IF adk_empty THEN Outcome("fallback", c1, <<>>, upload_ops, NoResp, <<>>)
       ELSE IF ShouldRetryEmptyOps(m, user_text, v.ops)
       THEN Outcome("retry_primary", c1, message, upload_ops, NoResp, <<>>)
       ELSE Outcome("done", c1, message, upload_ops, Respond("ok", message, v.ops), <<>>))))))

PlannerFailedMessage ==
    <<"Agent returned an empty response, and the fallback planner also failed.">>

\* after the fallback planner returned r = [raised, msg, ops]
AfterFallback(c, r, upload_ops, m, user_text) ==
    IF r.raised
    THEN Outcome("done", c, <<>>, upload_ops,
                 Respond("planner_failed", PlannerFailedMessage, c.operations), <<>>)
    ELSE Let(upload_ops \o NonUploadOps(r.ops), LAMBDA merged :
         Let(OptimizeRedundantTextureSampling(merged), LAMBDA ops2 :
         Let(ValidateOps(c, definitions, ops2), LAMBDA v :
         Let(WithValidatorNote(IF r.msg # <<>> THEN r.msg ELSE FallbackMessageFromOps(v.ops),
                               Len(ops2), v), LAMBDA message :
         Let([c EXCEPT !.operations = v.ops], LAMBDA c1 :
            IF ShouldRetryEmptyOps(m, user_text, v.ops)
            THEN Outcome("retry_fallback", c1, message, upload_ops, NoResp, <<>>)
            ELSE TemplateTier(c1, message, upload_ops, user_text))))))

\* the retry's result is adopted only when it holds a meaningful operation
AdoptRetry(c, r, message, upload_ops) ==
    IF r.raised THEN [c |-> c, message |-> message]
    ELSE Let(upload_ops \o NonUploadOps(r.ops), LAMBDA merged :
         Let(OptimizeRedundantTextureSampling(merged), LAMBDA ops2 :
         Let(ValidateOps(c, definitions, ops2), LAMBDA v :
            IF NonUploadOps(v.ops) # <<>>
            THEN [c |-> [c EXCEPT !.operations = v.ops],
                  message |-> WithValidatorNote(IF r.msg # <<>> THEN r.msg ELSE message,
                                                Len(ops2), v)]
            ELSE [c |-> c, message |-> message])))

\* after the retry planner returned, on the path that came through the fallback
AfterRetryFallback(c, r, message, upload_ops, user_text) ==
    Let(AdoptRetry(c, r, message, upload_ops), LAMBDA a :
        TemplateTier(a.c, a.message, upload_ops, user_text))

\* the retry after a non-empty primary run followed by the template tier
AfterRetryPrimary_ThenTemplate(c, r, message) ==
    Let(AdoptRetry(c, r, message, UploadOps(c.operations)), LAMBDA a :
        TemplateTier(a.c, a.message, UploadOps(c.operations), req.text))

\* after the retry planner returned, on the path of a non-empty primary run
AfterRetryPrimary(c, r, message) ==
    Let(AdoptRetry(c, r, message, UploadOps(c.operations)), LAMBDA a :
        Outcome("done", a.c, a.message, UploadOps(c.operations),
                Respond("ok", a.message, a.c.operations), <<>>))

----------------------------------------------------------------------------
(* The tool-calling run: one action per recorder tool *)

MaxCalls == 3

Red == <<"rgb", 1000, 0, 0>>

\* a call as the history keeps it: the tool, its arguments, what it returned,
\* the log's length before and after it, and the index the next sequential
\* placeholder had when the call was made
Call(tool, type, ids, value, ret, c, c1) ==
    [tool |-> tool, type |-> type, ids |-> ids, value |-> value, ret |-> ret,
     before |-> Len(c.operations), after |-> Len(c1.operations),
     ph |-> c.ph_counter]

AddNode(type) ==
    /\ pc = "primary" /\ Len(calls) < MaxCalls
    /\ \E r \in {AddNodeTool(ctx, type)} :
          /\ ctx' = r.c
          /\ calls' = Append(calls, Call("add_node", type, <<>>, NoValue, r.ret, ctx, r.c))
    /\ UNCHANGED <<pc, definitions, req, mode, work, resp, trace, arg, result, assets>>

RemoveNode(id) ==
    /\ pc = "primary" /\ Len(calls) < MaxCalls
    /\ ctx' = RemoveNodeTool(ctx, id).c
    /\ calls' = Append(calls, Call("remove_node", "", <<id>>, NoValue, NoId, ctx, ctx'))
    /\ UNCHANGED <<pc, definitions, req, mode, work, resp, trace, arg, result, assets>>

ConnectNodes(s, ss, t, ts) ==
    /\ pc = "primary" /\ Len(calls) < MaxCalls
    /\ \E r \in {ConnectNodesTool(ctx, s, ss, t, ts)} :
          /\ ctx' = r.c
          /\ calls' = Append(calls, Call("connect_nodes", "", <<s, t>>, NoValue, r.ret, ctx, r.c))
    /\ UNCHANGED <<pc, definitions, req, mode, work, resp, trace, arg, result, assets>>

DisconnectNodes(s, ss, t, ts) ==
    /\ pc = "primary" /\ Len(calls) < MaxCalls
    /\ ctx' = DisconnectNodesTool(ctx, s, ss, t, ts).c
    /\ calls' = Append(calls, Call("disconnect_nodes", "", <<s, t>>, NoValue, NoId, ctx, ctx'))
    /\ UNCHANGED <<pc, definitions, req, mode, work, resp, trace, arg, result, assets>>

UpdateNodeValue(id, key, value) ==
    /\ pc = "primary" /\ Len(calls) < MaxCalls
    /\ ctx' = UpdateNodeValueTool(ctx, id, key, value).c
    /\ calls' = Append(calls, Call("update_node_value", key, <<id>>, value, NoId, ctx, ctx'))
    /\ UNCHANGED <<pc, definitions, req, mode, work, resp, trace, arg, result, assets>>

\* the model calls upload_asset on a request that came with attachments
\* (without any the tool raises and nothing changes); the call's `value` is
\* the content it stored
UploadAsset ==
    /\ pc = "primary" /\ Len(calls) < MaxCalls
    /\ req.atts # <<>>
    /\ \E r \in UploadAssetTool(ctx, req.atts) :
          /\ ctx' = r.c
          /\ assets' = assets \cup r.put
          /\ calls' = Append(calls, Call("upload_asset", "", <<>>,
                                         IF r.put = {} THEN NoValue
                                         ELSE <<"bytes", ContentOf(req.atts[1])>>,
                                         r.ret, ctx, r.c))
    /\ UNCHANGED <<pc, definitions, req, mode, work, resp, trace, arg, result>>

----------------------------------------------------------------------------
(* process_request as a state machine *)

\* the snapshots requests arrive with: Scenario A's, an empty graph, and a
\* graph with both masters and a colour node
OutputOnly == <<[id |-> Nm("output"), type |-> "output"]>>
EmptyGraph == <<>>
FullGraph ==
    <<[id |-> Nm("a"), type |-> "color"], [id |-> Nm("out1"), type |-> "output"],
      [id |-> Nm("v1"), type |-> "vertex"]>>
Snapshots == {OutputOnly, EmptyGraph, FullGraph}

Request(g, d, text, cmd, atts) ==
    [graph |-> g, definitions |-> d, text |-> text, cmd |-> cmd, atts |-> atts]

\* the requests the model serves
Requests ==
    {Request(OutputOnly, StdDefs, "add a red color", "", <<>>),
     Request(OutputOnly, NoDefs, "add a red color", "", <<>>),
     Request(OutputOnly, StdDefs, "why is it dark?", "", <<>>),
     Request(OutputOnly, StdDefs, "make the flag wave", "", <<1>>),
     Request(EmptyGraph, StdDefs, "add a red color", "", <<1, 0, 1>>),
     Request(EmptyGraph, NoDefs, "", "", <<>>),
     Request(FullGraph, StdDefs, "make the flag wave", "", <<>>),
     Request(FullGraph, NoDefs, "make the flag wave", "ask", <<1, 0, 1>>),
     Request(FullGraph, StdDefs, "add a red color", "edit", <<>>),
     Request(FullGraph, StdDefs, "", "", <<1, 0, 1>>),
     Request(OutputOnly, StdDefs, "why is it dark?", "", <<-2>>)}

NoArg == <<>>
NoResult == [kind |-> "none"]
NoWork == [message |-> <<>>, upload_ops |-> <<>>, raw |-> <<>>]

Init ==
    /\ pc = "start"
    /\ req \in Requests
    /\ ctx = NewContext(req.graph, {})
    /\ calls = <<>>
    /\ definitions = req.definitions
    /\ mode = ""
    /\ work = NoWork
    /\ resp = NoResp
    /\ trace = <<>>
    /\ arg = NoArg
    /\ result = NoResult
    /\ assets = {}

\* uploads, slash command; without a command and with a text, the classifier is asked
Start ==
    /\ pc = "start"
    /\ ctx' = PersistAttachments(ctx, req.atts)
    /\ assets' = assets \cup {ctx'.uploaded_attachment_asset_ids[i] :
                                  i \in 1..Len(ctx'.uploaded_attachment_asset_ids)}
    /\ IF req.cmd # ""
       THEN /\ mode' = FinalMode(req.cmd, TRUE, ctx.graph_nodes)
            /\ pc' = "primary"
       ELSE IF req.text = ""
       THEN /\ mode' = FinalMode("editor", FALSE, ctx.graph_nodes)
            /\ pc' = "primary"
       ELSE /\ mode' = mode
            /\ pc' = "route"
    /\ UNCHANGED <<calls, definitions, req, work, resp, trace, arg, result>>

\* the classifier's answer, or its failure
RouteReply(answer) ==
    /\ pc = "route"
    /\ mode' = FinalMode(RoutedIntent(answer), FALSE, ctx.graph_nodes)
    /\ pc' = "primary"
    /\ trace' = Append(trace, "ROUTE")
    /\ UNCHANGED <<ctx, calls, definitions, req, work, resp, arg, result, assets>>

\* how an outcome becomes the next state
Become(o, tags) ==
    /\ pc' = o.pc
    /\ ctx' = o.c
    /\ work' = [message |-> o.message, upload_ops |-> o.upload_ops, raw |-> <<>>]
    /\ resp' = o.resp
    /\ trace' = trace \o tags \o o.tags
    /\ UNCHANGED <<calls, definitions, req, mode, arg, result, assets>>

\* the run ends with the final text `text`
PrimaryEnd(text) ==
    /\ pc = "primary"
    /\ \E o \in {AfterPrimary(ctx, text, mode, req.text)} : Become(o, <<"PRIMARY">>)

\* the run raises: the outer handler answers with the error and no operations
\* the failure answered with the operations recorded before it
PrimaryRaise_KeepsLog ==
    /\ pc = "primary"
    /\ pc' = "done"
    /\ resp' = Respond("error", <<"Error: ">>, ctx.operations)
    /\ trace' = Append(trace, "PRIMARY")
    /\ UNCHANGED <<ctx, calls, definitions, req, mode, work, arg, result, assets>>

PrimaryRaise ==
    /\ pc = "primary"
    /\ pc' = "done"
    /\ resp' = Respond("error", <<"Error: ">>, <<>>)
    /\ trace' = Append(trace, "PRIMARY")
    /\ UNCHANGED <<ctx, calls, definitions, req, mode, work, arg, result, assets>>

PlanTiers == {"fallback", "retry_fallback", "retry_primary"}
Raised == [raised |-> TRUE, msg |-> <<>>, ops |-> <<>>]
TierTag(p) == IF p = "fallback" THEN "FALLBACK_PLAN" ELSE "RETRY_PLAN"

\* the code that follows _direct_plan_ops in the tier at hand
AfterPlan(r) ==
    CASE pc = "fallback" -> AfterFallback(ctx, r, work.upload_ops, mode, req.text)
      [] pc = "retry_fallback" ->
           AfterRetryFallback(ctx, r, work.message, work.upload_ops, req.text)
      [] OTHER -> AfterRetryPrimary(ctx, r, work.message)

\* the planner's reply p: undecodable text goes to the repair round-trip
PlanReply(p) ==
    /\ pc \in PlanTiers /\ work.raw = <<>>
    /\ IF p.kind = "none" /\ p.raw # <<>>
       THEN /\ work' = [work EXCEPT !.raw = p.raw]
            /\ trace' = Append(trace, TierTag(pc))
            /\ UNCHANGED <<pc, ctx, calls, definitions, req, mode, resp, arg, result, assets>>
       ELSE \E r \in {IF p.kind = "raise" THEN Raised ELSE DirectPlanFromData(ctx, p)} :
            \E o \in {AfterPlan(r)} : Become(o, <<TierTag(pc)>>)

\* a repair call whose reply cannot be decoded asked again
RepairReply_Again(p) ==
    /\ pc \in PlanTiers /\ work.raw # <<>>
    /\ IF p.kind \in {"none", "raise"}
       THEN /\ trace' = Append(trace, "REPAIR")
            /\ UNCHANGED <<pc, ctx, calls, definitions, req, mode, work, resp, arg, result,
                           assets>>
       ELSE \E r \in {DirectPlanFromData(ctx, p)} :
            \E o \in {AfterPlan(r)} : Become(o, <<"REPAIR">>)

\* the repair call's reply: a failed call or undecodable text leaves the raw text
RepairReply(p) ==
    /\ pc \in PlanTiers /\ work.raw # <<>>
    /\ \E r \in {DirectPlanFromData(ctx,
                      IF p.kind \in {"none", "raise"} THEN [kind |-> "none", raw |-> work.raw]
                      ELSE p)} :
       \E o \in {AfterPlan(r)} : Become(o, <<"REPAIR">>)

----------------------------------------------------------------------------
(* What the planner may answer, after the decode *)

Doc(message, operations) ==
    [kind |-> "dict", message |-> Msg(message), operations |-> operations]

\* Scenario A as a planning document
DocColor ==
    Doc("Added a red color",
        <<[op |-> "add_node", nodeId |-> Nm("c1"), nodeType |-> "color"],
          [op |-> "update_node_data", nodeId |-> Nm("c1"), dataKey |-> "color",
           dataValue |-> Red],
          [op |-> "add_connection", sourceNodeId |-> Nm("c1"), sourceSocketId |-> "out",
           targetNodeId |-> Nm("output"), targetSocketId |-> "color"]>>)

\* Scenario C: a tool-style connection from the existing "a" to "missing"
DocMissing ==
    Doc("Connected",
        <<[tool |-> "connect_nodes", source_node_id |-> Nm("a"), source_socket_id |-> "out",
           target_node_id |-> Nm("missing"), target_socket_id |-> "in"]>>)

\* master nodes planned again, with and without an id, and an id planned twice
DocMasters ==
    Doc("Rebuilt the masters",
        <<[op |-> "add_node", nodeType |-> "output"],
          [op |-> "add_node", nodeId |-> Nm("o1"), nodeType |-> "output"],
          [op |-> "add_node", id |-> Nm("o2"), type |-> "output"],
          [op |-> "add_connection", sourceNodeId |-> Nm("a"), sourceSocketId |-> "out",
           targetNodeId |-> Nm("o2"), targetSocketId |-> "color"],
          [op |-> "add_node", nodeId |-> Nm("o1"), nodeType |-> "color"]>>)

\* operations on nodes nobody created
DocGhost ==
    Doc("",
        <<[op |-> "remove_connection", sourceNodeId |-> Nm("ghost"), sourceSocketId |-> "out",
           targetNodeId |-> Nm("ghost2"), targetSocketId |-> "in"],
          [op |-> "move_node", nodeId |-> Nm("ghost")]>>)

DocSingleNode == Doc("Added a node", <<[tool |-> "addNode", type |-> "color"]>>)
DocNothing == Doc("Nothing to change", <<>>)
DocUnknownKind == Doc("", <<[op |-> "explode"]>>)
BareList == [kind |-> "list", operations |-> <<[op |-> "move_node", nodeId |-> Nm("a")]>>]
\* an upload and an image generation planned, and a kind nobody knows
DocAssets ==
    Doc("Prepared the assets",
        <<[tool |-> "uploadAsset", assetId |-> Nm("planned")],
          [op |-> "generate_image"],
          [op |-> "explode"]>>)

\* a plan that only asks the frontend for a preview, in the tool spelling
DocPreviews == Doc("Let me look at the result first", <<[tool |-> "requestPreviews"]>>)

PlanReplies ==
    {DocColor, DocMissing, DocMasters, DocGhost, DocSingleNode, DocNothing, DocUnknownKind,
     BareList, DocAssets, DocPreviews,
     [kind |-> "scalar", truthy |-> TRUE], [kind |-> "scalar", truthy |-> FALSE],
     [kind |-> "none", raw |-> <<"I cannot do that">>], [kind |-> "none", raw |-> <<>>],
     [kind |-> "raise"]}

RouterAnswers == {"architect", "editor", "refiner", "consultant", "something else", "raise"}

RunTypes == {"color", "output"}

Next ==
    \/ Start
    \/ \E answer \in RouterAnswers : RouteReply(answer)
    \/ \E t \in RunTypes : AddNode(t)
    \/ ConnectNodes(NodeId(0), "out", Nm("output"), "color")
    \/ DisconnectNodes(Nm("ghost"), "out", Nm("output"), "color")
    \/ UpdateNodeValue(NodeId(0), "color", Red)
    \/ UploadAsset
    \/ \E text \in {"", "Done."} : PrimaryEnd(text)
    \/ PrimaryRaise
    \/ \E p \in PlanReplies : PlanReply(p)
    \/ \E p \in PlanReplies : RepairReply(p)

Spec == Init /\ [][Next]_vars

----------------------------------------------------------------------------
(* The recorder alone: any sequence of tool calls on a fresh context *)

NumberedGraph ==
    <<[id |-> NodeId(0), type |-> "color"], [id |-> NodeId(2), type |-> "output"]>>
ToolSnapshots == Snapshots \cup {NumberedGraph}

ToolTypes == {"color", "output", "vertex"}
ToolIds == {Nm("output"), Nm("vertex"), NodeId(0), NodeId(1), <<"color", "-", 1>>, Nm("ghost")}
ToolPairs == {<<NodeId(0), Nm("output")>>, <<<<"color", "_", 1>>, Nm("master")>>,
              <<Nm("a"), NodeId(1)>>}

ToolsInit ==
    /\ pc = "primary"
    /\ \E g \in ToolSnapshots : ctx = NewContext(g, {})
    /\ calls = <<>>
    /\ definitions = StdDefs
    /\ req = Request(ctx.graph_nodes, StdDefs, "add a red color", "", <<>>)
    /\ mode = "editor"
    /\ work = NoWork
    /\ resp = NoResp
    /\ trace = <<>>
    /\ arg = NoArg
    /\ result = NoResult
    /\ assets = {}

ToolsNext ==
    \/ \E t \in ToolTypes : AddNode(t)
    \/ \E id \in ToolIds : RemoveNode(id)
    \/ \E st \in ToolPairs : ConnectNodes(st[1], "out", st[2], "color")
    \/ \E st \in ToolPairs : DisconnectNodes(st[1], "out", st[2], "color")
    \/ \E id \in ToolIds : UpdateNodeValue(id, "color", Red)
    \/ UpdateNodeValue(NodeId(0), "label", <<"str", "Base color">>)

SpecTools == ToolsInit /\ [][ToolsNext]_vars

----------------------------------------------------------------------------
(* Properties of the recorder *)

AddNodeCount(ops, t) ==
    Cardinality({k \in 1..Len(ops) : ops[k].op = "add_node" /\ ops[k].nodeType = t})
SnapshotHolds(c, t) == \E i \in 1..Len(c.graph_nodes) : c.graph_nodes[i].type = t

\* C1, on every state: two add_node calls with the same singleton type
\* returned the same id; the log holds at most one add_node of each singleton
\* type, none when the snapshot holds that singleton; and a call that reused
\* a singleton left the log as long as it was.
C1_Singletons ==
    /\ \A i, j \in 1..Len(calls) :
          (calls[i].tool = "add_node" /\ calls[j].tool = "add_node"
           /\ calls[i].type \in SingletonTypes /\ calls[i].type = calls[j].type)
          => calls[i].ret = calls[j].ret
    /\ \A t \in SingletonTypes :
          /\ AddNodeCount(ctx.operations, t) <= 1
          /\ SnapshotHolds(ctx, t) => AddNodeCount(ctx.operations, t) = 0
    /\ \A j \in 1..Len(calls) :
          (calls[j].tool = "add_node" /\ calls[j].type \in SingletonTypes
           /\ (SnapshotHolds(ctx, calls[j].type)
               \/ \E i \in 1..(j-1) : calls[i].tool = "add_node" /\ calls[i].type = calls[j].type))
          => calls[j].after = calls[j].before

\* C1: the singleton property holds throughout, and a step in which add_node
\* finds the singleton present changes nothing in the operation log.
C1_SingletonReuse ==
    /\ []C1_Singletons
    /\ [][\A t \in SingletonTypes :
            (AddNode(t) /\ ExistingSingleton(ctx, t) # NoId)
            => ctx'.operations = ctx.operations]_vars

\* a singleton was created by a first add_node and reused by a second, with a
\* remove_node of it in between
C1_Witness ==
    \E i, j, k \in 1..Len(calls) :
        /\ i < k /\ k < j
        /\ calls[i].tool = "add_node" /\ calls[j].tool = "add_node"
        /\ calls[i].type = "output" /\ calls[j].type = "output"
        /\ calls[k].tool = "remove_node"
        /\ calls[i].after = calls[i].before + 1
        /\ calls[j].ret = calls[i].ret
        /\ \E n \in 1..Len(ctx.operations) : ctx.operations[n].op = "remove_node"
                                              /\ ctx.operations[n].nodeId = calls[i].ret

----------------------------------------------------------------------------
(* Properties of the final log *)

\* the request of Scenario A and the three calls of its run
ScenarioA ==
    /\ req.graph = OutputOnly /\ req.atts = <<>>
    /\ Len(calls) = 3
    /\ calls[1].tool = "add_node" /\ calls[1].type = "color"
    /\ calls[2].tool = "update_node_value" /\ calls[2].ids = <<calls[1].ret>>
    /\ calls[2].type = "color" /\ calls[2].value = Red
    /\ calls[3].tool = "connect_nodes" /\ calls[3].ids = <<calls[1].ret, Nm("output")>>

ScenarioALog ==
    <<OpAddNode(calls[1].ret, "color"),
      OpUpdateNodeData(calls[1].ret, "value", <<"hex", 255, 0, 0>>),
      OpAddConnection(calls[3].ret, calls[1].ret, "out", Nm("output"), "color")>>

PlanTags == {"FALLBACK_PLAN", "REPAIR", "RETRY_PLAN", "TEMPLATE_FALLBACK"}

\* C9: in Scenario A the run's log is the three operations add_node(color),
\* update_node_data with the hex string for red, add_connection from the new
\* node to the master output's color socket; the answer carries exactly that
\* log, the step that optimizes and validates leaves the log as it was, and no
\* planner tier runs.
C9_ScenarioA ==
    /\ [](ScenarioA =>
            /\ pc \in {"primary", "done"}
            /\ ctx.operations = ScenarioALog
            /\ \A k \in 1..Len(trace) : trace[k] \notin PlanTags
            /\ (pc = "done" /\ resp.status = "ok") => resp.operations = ScenarioALog)
    /\ [][(ScenarioA /\ \E text \in {"", "Done."} : PrimaryEnd(text))
            => (ctx'.operations = ctx.operations /\ pc' = "done")]_vars

C9_Witness ==
    /\ ScenarioA /\ pc = "done" /\ resp.status = "ok"
    /\ Len(resp.operations) = 3
    /\ resp.operations[2].dataValue = <<"hex", 255, 0, 0>>
    /\ definitions = StdDefs

\* the node ids an operation refers to
RefsOf(op) ==
    (CASE op.op \in {"update_node_data", "move_node", "remove_node"} -> {op.nodeId}
       [] op.op \in {"add_connection", "remove_connection"} -> {op.sourceNodeId, op.targetNodeId}
       [] op.op = "request_previews" ->
            {op.previewRequests[k].nodeId : k \in 1..Len(op.previewRequests)}
       [] OTHER -> {}) \ {NoId}

\* id is in the snapshot, or an earlier add_node of the log creates it and no
\* remove_node in between removes it
Traced(c, ops, i, id) ==
    \/ id \in SnapshotIds(c.graph_nodes)
    \/ \E j \in 1..(i-1) :
          /\ ops[j].op = "add_node" /\ ops[j].nodeId = id
          /\ \A k \in (j+1)..(i-1) : ~(ops[k].op = "remove_node" /\ ops[k].nodeId = id)

\* C3: every node id an operation of the final log refers to is a snapshot id
\* or the id of an earlier add_node of that log, not removed in between.
C3_ReferencesTraced ==
    (pc = "done" /\ resp.status # "error") =>
        \A i \in 1..Len(resp.operations) :
            \A id \in RefsOf(resp.operations[i]) : Traced(ctx, resp.operations, i, id)

\* C4: the final log holds at most one add_node per singleton type, and none
\* for a singleton type the snapshot holds.
C4_NoDuplicateSingleton ==
    pc = "done" =>
        \A t \in SingletonTypes :
            /\ AddNodeCount(resp.operations, t) <= 1
            /\ SnapshotHolds(ctx, t) => AddNodeCount(resp.operations, t) = 0

----------------------------------------------------------------------------
(* Long runs of creations: add_node called MaxCreations times in one request *)

MaxCreations == 50

\* a snapshot whose ids leave holes in the node_<n> sequence
SparseGraph ==
    <<[id |-> NodeId(0), type |-> "color"], [id |-> NodeId(1), type |-> "float"],
      [id |-> NodeId(3), type |-> "output"], [id |-> NodeId(7), type |-> "vertex"],
      [id |-> <<"node", "", 2>>, type |-> "uv"]>>
CreateSnapshots == {EmptyGraph, OutputOnly, NumberedGraph, SparseGraph}

\* the type of the first creation and the two types the later ones alternate
CreatePatterns ==
    {<<"color", "color", "color">>, <<"output", "float", "color">>,
     <<"vertex", "color", "multiply">>, <<"float", "uv", "float">>}

CreateType(pattern, k) == IF k = 1 THEN pattern[1] ELSE pattern[2 + (k % 2)]

CreateInit ==
    /\ pc = "creating"
    /\ \E g \in CreateSnapshots : ctx = NewContext(g, {})
    /\ arg \in CreatePatterns
    /\ calls = <<>>
    /\ definitions = StdDefs
    /\ req = Request(ctx.graph_nodes, StdDefs, "add a red color", "", <<>>)
    /\ mode = "architect"
    /\ work = NoWork
    /\ resp = NoResp
    /\ trace = <<>>
    /\ result = NoResult
    /\ assets = {}

\* add_node on a type that is not an existing master: the creating branch
CreateNode ==
    /\ pc = "creating" /\ Len(calls) < MaxCreations
    /\ LET type == CreateType(arg, Len(calls) + 1)
           r == AddNodeTool(ctx, type)
       IN /\ ExistingSingleton(ctx, type) = NoId
          /\ ctx' = r.c
          /\ calls' = Append(calls, Call("add_node", type, <<>>, NoValue, r.ret, ctx, r.c))
    /\ UNCHANGED <<pc, definitions, req, mode, work, resp, trace, arg, result, assets>>

SpecCreate == CreateInit /\ [][CreateNode]_vars

\* C5: in a run of consecutive creations, the k-th sequential placeholder (in
\* both spellings node_<idx> and node<idx>) resolves to the real id the k-th
\* creation returned, at every later point of the run; that id is new to the
\* snapshot and is the id of the k-th add_node of the log; no two creations
\* share a placeholder or a real id.
C5_PlaceholdersResolve ==
    pc = "creating" =>
        \A k \in 1..Len(calls) :
            /\ ResolveNodeId(ctx, <<"node", "_", calls[k].ph>>) = calls[k].ret
            /\ ResolveNodeId(ctx, <<"node", "", calls[k].ph>>) = calls[k].ret
            /\ calls[k].ret \notin SnapshotIds(ctx.graph_nodes)
            /\ ctx.operations[k] = OpAddNode(calls[k].ret, calls[k].type)
            /\ \A j \in 1..Len(calls) :
                  j # k => (calls[j].ph # calls[k].ph /\ calls[j].ret # calls[k].ret)

C5_Witness ==
    /\ pc = "creating" /\ Len(calls) >= 50
    /\ ctx.graph_nodes = SparseGraph
    /\ \E k \in 1..Len(calls) :
          /\ calls[k].ret # <<"node", "_", calls[k].ph>>
          /\ ResolveNodeId(ctx, <<"node", "_", calls[k].ph>>) = calls[k].ret
          /\ <<"node", "_", calls[k].ph>> \in SnapshotIds(ctx.graph_nodes)

----------------------------------------------------------------------------
(* The validator alone: _validate_ops on any short log *)

MaxLogLen == 3

\* Scenario C's planning document, parsed and sanitized against FullGraph
ScenarioCOps == DirectPlanFromData(NewContext(FullGraph, {}), DocMissing).ops

ValMenu ==
    {OpAddNode(Nm("n1"), "color"),
     OpRemoveNode(Nm("a")),
     OpAddConnection(Nm("c1"), Nm("a"), "out", Nm("n1"), "in"),
     OpAddConnection(NoId, Nm("n1"), "out", Nm("master"), "color"),
     OpAddConnection(NoId, NoId, "out", Nm("ghost"), "in"),
     OpAddConnection(NoId, Nm("a"), "out", Nm("out1"), "")}
    \cup {ScenarioCOps[k] : k \in 1..Len(ScenarioCOps)}

ValLogs == UNION {[1..n -> ValMenu] : n \in 0..MaxLogLen}

ValidateInit ==
    /\ pc = "validate"
    /\ \E g \in {FullGraph, OutputOnly} : ctx = NewContext(g, {})
    /\ definitions \in {StdDefs, NoDefs}
    /\ arg \in ValLogs
    /\ calls = <<>>
    /\ req = Request(ctx.graph_nodes, definitions, "add a red color", "", <<>>)
    /\ mode = "architect"
    /\ work = NoWork
    /\ resp = NoResp
    /\ trace = <<>>
    /\ result = NoResult
    /\ assets = {}

ValidateLog ==
    /\ pc = "validate"
    /\ LET v == ValidateOps(ctx, definitions, arg)
       IN result' = [kind |-> "validated", ops |-> v.ops, warnings |-> v.warnings]
    /\ pc' = "validated"
    /\ UNCHANGED <<ctx, calls, definitions, req, mode, work, trace, arg, resp, assets>>

SpecValidate == ValidateInit /\ [][ValidateLog]_vars

\* id is known when the walk reaches the i-th operation: the context or an
\* earlier add_node established it and no remove_node since then removed it
KnownIdAt(c, ops, i, id) ==
    \E e \in 0..(i-1) :
        /\ \/ e = 0 /\ id \in OKeys(c.node_types)
           \/ e > 0 /\ ops[e].op = "add_node" /\ ops[e].nodeId = id
        /\ \A k \in (e+1)..(i-1) :
              ~(ops[k].op = "remove_node" /\ RemapMasterAlias(c, ops[k].nodeId) = id)

\* the endpoints of the i-th operation, remapped, that are not known there
AbsentEndpoints(c, ops, i) ==
    {x \in {RemapMasterAlias(c, ops[i].sourceNodeId), RemapMasterAlias(c, ops[i].targetNodeId)} :
        x = NoId \/ ~KnownIdAt(c, ops, i, x)}

\* the warnings the walk produced for the i-th operation
WarningsAt(i) ==
    {result.warnings[k] : k \in {j \in 1..Len(result.warnings) :
                                    result.warnings[j].index = i - 1}}

\* every emitted connection is an input connection whose endpoints were known,
\* and no more connections are emitted than there are such inputs
EmitsOnlyKnown ==
    /\ \A k \in 1..Len(result.ops) :
          result.ops[k].op = "add_connection" =>
              \E i \in 1..Len(arg) :
                  /\ arg[i].op = "add_connection"
                  /\ AbsentEndpoints(ctx, arg, i) = {}
                  /\ result.ops[k] =
                        [arg[i] EXCEPT !.sourceNodeId = RemapMasterAlias(ctx, @),
                                       !.targetNodeId = RemapMasterAlias(ctx, @)]
    /\ Cardinality({k \in 1..Len(result.ops) : result.ops[k].op = "add_connection"})
          <= Cardinality({i \in 1..Len(arg) : arg[i].op = "add_connection"
                                               /\ AbsentEndpoints(ctx, arg, i) = {}})

\* C2 as stated: a connection with an endpoint id absent from the known ids is
\* never emitted, and a warning for it names every endpoint id that is absent.
C2_MissingIdNamed ==
    pc = "validated" =>
        /\ EmitsOnlyKnown
        /\ \A i \in 1..Len(arg) :
              (arg[i].op = "add_connection" /\ AbsentEndpoints(ctx, arg, i) # {}) =>
                  \E w \in WarningsAt(i) :
                      /\ w.op = "add_connection"
                      /\ \A x \in AbsentEndpoints(ctx, arg, i) \ {NoId} :
                            x \in {w.sourceNodeId, w.targetNodeId, w.nodeId}

\* C2, amended: a connection with an endpoint id absent from the known ids is
\* never emitted and draws exactly one warning; when both endpoint ids are
\* non-empty the warning carries both (so it names the missing one), and when
\* one is empty the warning says an endpoint id is missing and names no id.
C2_UnknownEndpointDropped ==
    pc = "validated" =>
        /\ EmitsOnlyKnown
        /\ \A i \in 1..Len(arg) :
              (arg[i].op = "add_connection" /\ AbsentEndpoints(ctx, arg, i) # {}) =>
                  LET sid == RemapMasterAlias(ctx, arg[i].sourceNodeId)
                      tid == RemapMasterAlias(ctx, arg[i].targetNodeId)
                  IN /\ Cardinality(WarningsAt(i)) = 1
                     /\ \A w \in WarningsAt(i) :
                          /\ w.op = "add_connection"
                          /\ IF sid # NoId /\ tid # NoId
                             THEN /\ w.reason = "add_connection references unknown nodeId"
                                  /\ w.sourceNodeId = sid /\ w.targetNodeId = tid
                             ELSE /\ w.reason = "add_connection missing source/target nodeId"
                                  /\ w.sourceNodeId = NoId /\ w.targetNodeId = NoId

\* Scenario C: "a" exists, "missing" does not
C2_Witness ==
    /\ pc = "validated" /\ ctx.graph_nodes = FullGraph
    /\ arg = ScenarioCOps /\ Len(arg) = 1
    /\ arg[1].sourceNodeId = Nm("a") /\ arg[1].targetNodeId = Nm("missing")
    /\ result.ops = <<>>
    /\ \E w \in WarningsAt(1) : w.targetNodeId = Nm("missing")

----------------------------------------------------------------------------
(* The optimizer alone: _optimize_redundant_texture_sampling on the logs  *)
(* that keep some of the operations of a texture/uv/sample chain          *)

\* the chain, a second consumer of the texture node, and what breaks the pattern
OptOps ==
    <<OpAddNode(Nm("tex"), "texture2D"),
      OpAddNode(Nm("uv"), "uv"),
      OpAddNode(Nm("samp"), "sampleTexture2D"),
      OpAddConnection(Nm("c1"), Nm("tex"), "out", Nm("samp"), "texture"),
      OpAddConnection(Nm("c2"), Nm("uv"), "out", Nm("samp"), "uv"),
      OpAddConnection(Nm("c3"), Nm("samp"), "rgba", Nm("output"), "color"),
      OpAddConnection(Nm("c4"), Nm("tex"), "rgba", Nm("mix"), "a"),
      OpAddConnection(Nm("c5"), Nm("samp"), "r", Nm("mix"), "b"),
      OpAddConnection(Nm("c6"), Nm("uv"), "out", Nm("mix"), "t"),
      OpUpdateNodeData(Nm("samp"), "filter", <<"str", "linear">>)>>

RECURSIVE Pick(_, _, _)
\* the operations of ops at the positions of S, from position i on, in order
Pick(ops, S, i) ==
    IF i > Len(ops) THEN <<>>
    ELSE (IF i \in S THEN <<ops[i]>> ELSE <<>>) \o Pick(ops, S, i + 1)

Reverse(seq) == [k \in 1..Len(seq) |-> seq[Len(seq) + 1 - k]]

OptLogs ==
    {Pick(OptOps, S, 1) : S \in SUBSET (1..Len(OptOps))}
    \cup {Reverse(Pick(OptOps, S, 1)) : S \in SUBSET (1..Len(OptOps))}

OptimizeInit ==
    /\ pc = "optimize"
    /\ arg \in OptLogs
    /\ ctx = NewContext(OutputOnly, {})
    /\ definitions = StdDefs
    /\ calls = <<>>
    /\ req = Request(OutputOnly, StdDefs, "add a red color", "", <<>>)
    /\ mode = "architect"
    /\ work = NoWork
    /\ resp = NoResp
    /\ trace = <<>>
    /\ result = NoResult
    /\ assets = {}

OptimizeLog ==
    /\ pc = "optimize"
    /\ result' = [kind |-> "optimized", ops |-> OptimizeRedundantTextureSampling(arg)]
    /\ pc' = "optimized"
    /\ UNCHANGED <<ctx, calls, definitions, req, mode, work, trace, arg, resp, assets>>

SpecOptimize == OptimizeInit /\ [][OptimizeLog]_vars

\* the log creates a node id of type t (its last typed add_node says so)
CreatesType(ops, id, t) ==
    \E i \in 1..Len(ops) :
        /\ ops[i].op = "add_node" /\ ops[i].nodeId = id /\ ops[i].nodeType = t
        /\ \A j \in (i+1)..Len(ops) :
              ~(ops[j].op = "add_node" /\ ops[j].nodeId = id /\ ops[j].nodeType # "")

Connections(ops) == {i \in 1..Len(ops) : ops[i].op = "add_connection"}

\* a texture2D node of the log has connections to two distinct target nodes
TexFeedsTwo(ops) ==
    \E i \in 1..Len(ops) :
        /\ CreatesType(ops, ops[i].nodeId, "texture2D")
        /\ Cardinality({ops[k].targetNodeId :
              k \in {j \in Connections(ops) : ops[j].sourceNodeId = ops[i].nodeId}}) >= 2

\* a sampleTexture2D node completes the chain: its first connection into
\* "texture" comes from a texture2D node's out/tex/texture socket, its first
\* connection into "uv" from a uv node's "out"; it has a single outgoing
\* connection, from rgba/out; the uv node has a single outgoing connection;
\* neither is updated
ChainComplete(ops) ==
    \E a \in Connections(ops), b \in Connections(ops), c \in Connections(ops) :
        LET samp == ops[a].targetNodeId
            uv == ops[b].sourceNodeId
        IN /\ samp # NoId /\ CreatesType(ops, samp, "sampleTexture2D")
           /\ ops[a].targetSocketId = "texture"
           /\ \A k \in Connections(ops) :
                 (ops[k].targetNodeId = samp /\ ops[k].targetSocketId = "texture") => a <= k
           /\ ops[a].sourceSocketId \in {"out", "tex", "texture"}
           /\ CreatesType(ops, ops[a].sourceNodeId, "texture2D")
           /\ ops[b].targetNodeId = samp /\ ops[b].targetSocketId = "uv"
           /\ \A k \in Connections(ops) :
                 (ops[k].targetNodeId = samp /\ ops[k].targetSocketId = "uv") => b <= k
           /\ ops[b].sourceSocketId = "out"
           /\ CreatesType(ops, uv, "uv")
           /\ ops[c].sourceNodeId = samp /\ ops[c].sourceSocketId \in {"rgba", "out"}
           /\ \A k \in Connections(ops) : ops[k].sourceNodeId = samp => k = c
           /\ \A k \in Connections(ops) : ops[k].sourceNodeId = uv => k = b
           /\ \A k \in 1..Len(ops) :
                 ~(ops[k].op = "update_node_data" /\ ops[k].nodeId \in {samp, uv})

----------------------------------------------------------------------------
(* Structured-output parser of _direct_plan_ops, on texts.  A text is a    *)
(* sequence of tokens: the characters the parser tells apart (braces,      *)
(* brackets, comma, colon, the two quotes, backslash, newline, space), a   *)
(* run of three backticks, and words, runs of any other characters.        *)

DQ == "DQ"
SQ == "SQ"
BS == "BS"
FENCE == "FENCE"

\* str.find(tok, from): the first position at or after `from`, 0 for -1
Find(t, tok, from) ==
    IF \E i \in from..Len(t) : t[i] = tok
    THEN CHOOSE i \in from..Len(t) : t[i] = tok /\ \A j \in from..(i-1) : t[j] # tok
    ELSE 0

\* str.rfind(tok): the last position, 0 for -1
RFind(t, tok) ==
    IF \E i \in 1..Len(t) : t[i] = tok
    THEN CHOOSE i \in 1..Len(t) : t[i] = tok /\ \A j \in (i+1)..Len(t) : t[j] # tok
    ELSE 0

\* _strip_markdown_fences
StripMarkdownFences(text) ==
    Let(StripText(text), LAMBDA t :
        LET start == Find(t, FENCE, 1)
            nl == IF start = 0 THEN 0 ELSE Find(t, NL, start)
            end == RFind(t, FENCE)
        IN IF start = 0 THEN t
           ELSE IF nl = 0 THEN t
           ELSE IF end > nl THEN StripText(SubSeq(t, nl + 1, end - 1))
           ELSE t)

\* the in_str branch of the loop in _extract_first_json_block, entered at the
\* quote at position j: a backslash makes the loop skip the next character,
\* so the string ends at the first quote of its kind that an even number of
\* backslashes precedes; 0 when the text ends first
ClosingQuote(s, j) ==
    LET Escaped(k) ==
            Cardinality({m \in (j+1)..(k-1) : \A n \in m..(k-1) : s[n] = BS}) % 2 = 1
        Closes(k) == s[k] = s[j] /\ ~Escaped(k)
    IN IF \E k \in (j+1)..Len(s) : Closes(k)
       THEN CHOOSE k \in (j+1)..Len(s) : Closes(k) /\ \A m \in (j+1)..(k-1) : ~Closes(m)
       ELSE 0

RECURSIVE ScanBlock(_, _, _, _, _)
\* the second loop of _extract_first_json_block from position j on, outside a
\* string, moved on to the next character the loop reacts to: the position
\* of the closing character, 0 when the text ends first
ScanBlock(s, j, start_ch, end_ch, depth) ==
    LET marks == {DQ, SQ, start_ch, end_ch}
    IN IF ~ \E i \in j..Len(s) : s[i] \in marks THEN 0
       ELSE LET i == CHOOSE i \in j..Len(s) :
                         s[i] \in marks /\ \A m \in j..(i-1) : s[m] \notin marks
            IN IF s[i] \in {DQ, SQ}
               THEN Let(ClosingQuote(s, i), LAMBDA close :
                       IF close = 0 THEN 0
                       ELSE ScanBlock(s, close + 1, start_ch, end_ch, depth))
               ELSE IF s[i] = start_ch THEN ScanBlock(s, i + 1, start_ch, end_ch, depth + 1)
               ELSE IF depth - 1 = 0 THEN i
               ELSE ScanBlock(s, i + 1, start_ch, end_ch, depth - 1)

\* _extract_first_json_block: the empty text for None
ExtractFirstJsonBlock(s) ==
    IF ~ \E i \in 1..Len(s) : s[i] \in {"{", "["} THEN <<>>
    ELSE LET start_idx == CHOOSE i \in 1..Len(s) :
                              s[i] \in {"{", "["} /\ \A j \in 1..(i-1) : s[j] \notin {"{", "["}
             start_ch == s[start_idx]
             end_ch == IF start_ch = "{" THEN "}" ELSE "]"
         IN Let(ScanBlock(s, start_idx, start_ch, end_ch, 0), LAMBDA j :
                IF j = 0 THEN <<>> ELSE StripText(SubSeq(s, start_idx, j)))

----------------------------------------------------------------------------
(* json.loads and pyjson5.decode on texts.  A decoded value is a pair of a *)
(* tag and a sequence: a string's tokens, a number's or a literal's word,  *)
(* a list's values, an object's <<key, value>> pairs in document order.    *)

PyNone == <<"none", <<>>>>
JStr(toks) == <<"str", toks>>
JNum(w) == <<"num", <<w>>>>
JLit(w) == <<"lit", <<w>>>>
JList(vs) == <<"list", vs>>
JObj(pairs) == <<"obj", pairs>>

Specials == {"{", "}", "[", "]", ",", ":", DQ, SQ, BS, NL, SP, FENCE}
NumberWords == {"0", "42"}
LiteralWords == {"true", "false", "null"}

Fail == [ok |-> FALSE, v |-> PyNone, pos |-> 0]
Ok(v, pos) == [ok |-> TRUE, v |-> v, pos |-> pos]

RECURSIVE SkipWs(_, _)
SkipWs(t, i) == IF i <= Len(t) /\ IsSpace(t[i]) THEN SkipWs(t, i + 1) ELSE i

RECURSIVE ScanString(_, _, _, _, _)
\* a string literal's characters from position i on, up to the quote q; a raw
\* newline ends the decode, "\n" decodes to a newline, and an escape the
\* strict grammar does not know is an error unless the decoder is lenient
ScanString(t, i, q, acc, lenient) ==
    IF i > Len(t) THEN Fail
    ELSE IF t[i] = q THEN Ok(JStr(acc), i + 1)
    ELSE IF t[i] = NL THEN Fail
    ELSE IF t[i] = BS
    THEN IF i + 1 > Len(t) THEN Fail
         ELSE IF t[i + 1] \in {DQ, BS, "/"}
         THEN ScanString(t, i + 2, q, Append(acc, t[i + 1]), lenient)
         ELSE IF t[i + 1] = "n" THEN ScanString(t, i + 2, q, Append(acc, NL), lenient)
         ELSE IF lenient /\ t[i + 1] # NL
         THEN ScanString(t, i + 2, q, Append(acc, t[i + 1]), lenient)
         ELSE Fail
    ELSE ScanString(t, i + 1, q, Append(acc, t[i]), lenient)

\* a key as the dict holds it; keys of the documents here are one word long
KeyOf(v) == IF Len(v[2]) = 1 THEN v[2][1] ELSE ""

RECURSIVE ParseValue(_, _, _)
RECURSIVE ParseElems(_, _, _, _, _)
RECURSIVE ParseMember(_, _, _)
RECURSIVE ParseMembers(_, _, _, _, _)

ParseValue(t, i, lenient) ==
    IF i > Len(t) THEN Fail
    ELSE CASE t[i] = "{" -> ParseMembers(t, i + 1, <<>>, lenient, TRUE)
           [] t[i] = "[" -> ParseElems(t, i + 1, <<>>, lenient, TRUE)
           [] t[i] = DQ -> ScanString(t, i + 1, DQ, <<>>, lenient)
           [] t[i] = SQ /\ lenient -> ScanString(t, i + 1, SQ, <<>>, lenient)
           [] t[i] \in LiteralWords -> Ok(JLit(t[i]), i + 1)
           [] t[i] \in NumberWords -> Ok(JNum(t[i]), i + 1)
           [] OTHER -> Fail

\* a value and the white space after it: [ok, v, pos], pos being the position
\* of what follows
ValueThenWs(t, i, lenient) ==
    Let(ParseValue(t, i, lenient), LAMBDA r :
        IF r.ok THEN Ok(r.v, SkipWs(t, r.pos)) ELSE Fail)

\* the elements of an array after "[" or after a comma; the lenient decoder
\* takes a trailing comma
ParseElems(t, i0, acc, lenient, first) ==
    Let(SkipWs(t, i0), LAMBDA i :
        IF i > Len(t) THEN Fail
        ELSE IF t[i] = "]" /\ (first \/ lenient) THEN Ok(JList(acc), i + 1)
        ELSE Let(ValueThenWs(t, i, lenient), LAMBDA r :
                IF ~r.ok \/ r.pos > Len(t) THEN Fail
                ELSE IF t[r.pos] = ","
                THEN ParseElems(t, r.pos + 1, Append(acc, r.v), lenient, FALSE)
                ELSE IF t[r.pos] = "]" THEN Ok(JList(Append(acc, r.v)), r.pos + 1)
                ELSE Fail))

\* one member of an object, from its key on: the pair <<key, value>> and the
\* position of what follows the value; the lenient decoder takes
\* single-quoted and bare keys
ParseMember(t, i, lenient) ==
    Let(CASE t[i] = DQ -> ScanString(t, i + 1, DQ, <<>>, lenient)
          [] t[i] = SQ /\ lenient -> ScanString(t, i + 1, SQ, <<>>, lenient)
          [] lenient /\ t[i] \notin Specials -> Ok(JStr(<<t[i]>>), i + 1)
          [] OTHER -> Fail,
        LAMBDA k :
          IF ~k.ok THEN Fail
          ELSE Let(SkipWs(t, k.pos), LAMBDA c :
                  IF c > Len(t) THEN Fail
                  ELSE IF t[c] # ":" THEN Fail
                  ELSE Let(ValueThenWs(t, SkipWs(t, c + 1), lenient), LAMBDA r :
                          IF r.ok THEN Ok(<<KeyOf(k.v), r.v>>, r.pos) ELSE Fail)))

\* the members of an object after "{" or after a comma; the lenient decoder
\* takes a trailing comma
ParseMembers(t, i0, acc, lenient, first) ==
    Let(SkipWs(t, i0), LAMBDA i :
        IF i > Len(t) THEN Fail
        ELSE IF t[i] = "}" /\ (first \/ lenient) THEN Ok(JObj(acc), i + 1)
        ELSE Let(ParseMember(t, i, lenient), LAMBDA m :
                IF ~m.ok \/ m.pos > Len(t) THEN Fail
                ELSE IF t[m.pos] = ","
                THEN ParseMembers(t, m.pos + 1, Append(acc, m.v), lenient, FALSE)
                ELSE IF t[m.pos] = "}" THEN Ok(JObj(Append(acc, m.v)), m.pos + 1)
                ELSE Fail))

\* json.loads (lenient = FALSE) and pyjson5.decode (lenient = TRUE) as
\* _try_json_loads and _try_json5_loads wrap them: PyNone for an exception,
\* and for the literal null
JsonLoads(t, lenient) ==
    Let(ValueThenWs(t, SkipWs(t, 1), lenient), LAMBDA r :
        IF r.ok /\ r.pos > Len(t) /\ ~(r.v[1] = "lit" /\ r.v[2] = <<"null">>)
        THEN r.v ELSE PyNone)

\* _parse_jsonish: the stripped text, then its first block, each with
\* json.loads and then, when the module is installed, with pyjson5
TryLoads(candidate, json5) ==
    IF StripText(candidate) = <<>> THEN PyNone
    ELSE Let(JsonLoads(candidate, FALSE), LAMBDA obj :
            IF obj[1] # "none" THEN obj
            ELSE IF json5 THEN JsonLoads(candidate, TRUE) ELSE PyNone)

ParseJsonish(text, json5) ==
    Let(StripMarkdownFences(text), LAMBDA t0 :
    Let(TryLoads(t0, json5), LAMBDA obj :
        IF obj[1] # "none" THEN obj ELSE TryLoads(ExtractFirstJsonBlock(t0), json5)))

----------------------------------------------------------------------------
(* From the decoded value to `data`, and json.dumps for the documents      *)

\* d.get(k): the value of the last member named k, PyNone when there is none
Lookup(pairs, k) ==
    IF \E i \in 1..Len(pairs) : pairs[i][1] = k
    THEN pairs[CHOOSE i \in 1..Len(pairs) :
                  pairs[i][1] = k /\ \A j \in (i+1)..Len(pairs) : pairs[j][1] # k][2]
    ELSE PyNone

\* bool(v)
Truthy(v) ==
    CASE v[1] = "none" -> FALSE
      [] v[1] = "num" -> v[2] # <<"0">>
      [] v[1] = "lit" -> v[2] = <<"true">>
      [] OTHER -> v[2] # <<>>

\* str(v or ""): a string's tokens, a number's word, True; one word stands
\* for the repr of a non-empty list or object
StrOf(v) ==
    IF ~Truthy(v) THEN <<>>
    ELSE CASE v[1] = "str" -> v[2]
           [] v[1] = "num" -> v[2]
           [] v[1] = "lit" -> <<"True">>
           [] OTHER -> <<"repr">>

\* the keys of planning items that hold node, connection or asset ids, and
\* those that hold a node's data
IdKeys == {"id", "nodeId", "connectionId", "sourceNodeId", "targetNodeId", "assetId",
           "node_id", "source_node_id", "target_node_id"}
ValueKeys == {"dataValue", "value"}

\* a member of a planning item as the later code reads it; ids and the other
\* string fields of the documents here are one word long
FieldOf(k, v) ==
    IF k \in IdKeys THEN (IF v[1] = "str" /\ Len(v[2]) = 1 THEN Nm(v[2][1]) ELSE NoId)
    ELSE IF k \in ValueKeys
    THEN (IF v[1] = "str" THEN <<"str", v[2]>>
          ELSE IF v[1] = "none" \/ (v[1] = "lit" /\ v[2] = <<"null">>) THEN NoValue
          ELSE <<"json", v>>)
    ELSE (IF v[1] = "str" /\ Len(v[2]) = 1 THEN v[2][1] ELSE "")

\* an element of the operations list; one that is not an object is skipped
\* by the main loop, as is the item without a kind that stands for it here
ItemOf(v) ==
    IF v[1] # "obj" THEN [non_dict |-> "item"]
    ELSE [k \in {v[2][i][1] : i \in 1..Len(v[2])} |-> FieldOf(k, Lookup(v[2], k))]

ItemsOf(vs) == [k \in 1..Len(vs) |-> ItemOf(vs[k])]

\* data.get("operations"), else data.get("ops"); the items when it is a list
OpsIn(pairs) ==
    LET a == Lookup(pairs, "operations")
        ops_in == IF a[1] = "none" \/ (a[1] = "lit" /\ a[2] = <<"null">>)
                  THEN Lookup(pairs, "ops") ELSE a
    IN IF ops_in[1] = "list" THEN ItemsOf(ops_in[2]) ELSE <<>>

\* `data` after the decode and the repair, for the reply `raw`
DataOf(v, raw) ==
    CASE v[1] = "none" -> [kind |-> "none", raw |-> raw]
      [] v[1] = "list" -> [kind |-> "list", operations |-> ItemsOf(v[2])]
      [] v[1] = "obj" -> [kind |-> "dict", message |-> StrOf(Lookup(v[2], "message")),
                          operations |-> OpsIn(v[2])]
      [] OTHER -> [kind |-> "scalar", truthy |-> Truthy(v)]

RECURSIVE Escape(_)
\* the characters json.dumps escapes inside a string
Escape(toks) ==
    IF toks = <<>> THEN <<>>
    ELSE (CASE Head(toks) = DQ -> <<BS, DQ>>
            [] Head(toks) = BS -> <<BS, BS>>
            [] Head(toks) = NL -> <<BS, "n">>
            [] OTHER -> <<Head(toks)>>) \o Escape(Tail(toks))

RECURSIVE Dumps(_, _)
RECURSIVE DumpElems(_, _, _)
RECURSIVE DumpMembers(_, _, _)

\* json.dumps(v), and json.dumps(v, indent=...) when pretty: one item a line
Dumps(v, pretty) ==
    CASE v[1] = "str" -> <<DQ>> \o Escape(v[2]) \o <<DQ>>
      [] v[1] \in {"num", "lit"} -> v[2]
      [] v[1] = "list" ->
           IF v[2] = <<>> THEN <<"[", "]">>
           ELSE <<"[">> \o (IF pretty THEN <<NL, SP>> ELSE <<>>) \o DumpElems(v[2], 1, pretty)
                \o (IF pretty THEN <<NL>> ELSE <<>>) \o <<"]">>
      [] OTHER ->
           IF v[2] = <<>> THEN <<"{", "}">>
           ELSE <<"{">> \o (IF pretty THEN <<NL, SP>> ELSE <<>>) \o DumpMembers(v[2], 1, pretty)
                \o (IF pretty THEN <<NL>> ELSE <<>>) \o <<"}">>

DumpElems(vs, i, pretty) ==
    Dumps(vs[i], pretty)
    \o (IF i = Len(vs) THEN <<>>
        ELSE <<",">> \o (IF pretty THEN <<NL, SP>> ELSE <<SP>>) \o DumpElems(vs, i + 1, pretty))

DumpMembers(pairs, i, pretty) ==
    <<DQ, pairs[i][1], DQ, ":", SP>> \o Dumps(pairs[i][2], pretty)
    \o (IF i = Len(pairs) THEN <<>>
        ELSE <<",">> \o (IF pretty THEN <<NL, SP>> ELSE <<SP>>) \o DumpMembers(pairs, i + 1, pretty))

----------------------------------------------------------------------------
(* The parser alone: one planner reply decoded, repaired when the decode   *)
(* fails, and turned into a plan against FullGraph                         *)

S(w) == JStr(<<w>>)

MsgPlain == <<"Added", SP, "a", SP, "node">>
\* a message that quotes a code fence, and one that quotes a brace
MsgFence == <<"Wrap", SP, "it", SP, "in", SP, FENCE, SP, "fences">>
MsgQuote == <<"Say", SP, DQ, "{", DQ>>

OpsOne ==
    <<JObj(<<<<"op", S("add_node")>>, <<"nodeId", S("c1")>>, <<"nodeType", S("color")>>>>)>>
OpsCode ==
    <<JObj(<<<<"op", S("update_node_data")>>, <<"nodeId", S("a")>>, <<"dataKey", S("note")>>,
             <<"dataValue", JStr(<<FENCE, "glsl">>)>>>>)>>
OpsTwo ==
    OpsOne \o
    <<JObj(<<<<"tool", S("connect_nodes")>>, <<"source_node_id", S("c1")>>,
             <<"source_socket_id", S("out")>>, <<"target_node_id", S("out1")>>,
             <<"target_socket_id", S("color")>>>>)>>

PlanDoc(message, ops) == JObj(<<<<"message", JStr(message)>>, <<"operations", JList(ops)>>>>)
DocMessage(d) == Lookup(d[2], "message")[2]
DocOps(d) == Lookup(d[2], "operations")[2]

\* well-formed planning documents
PlanDocs ==
    {PlanDoc(MsgPlain, OpsOne), PlanDoc(MsgFence, OpsCode), PlanDoc(MsgFence, <<>>),
     PlanDoc(MsgQuote, OpsTwo), PlanDoc(<<>>, OpsTwo)}

\* a fenced block after a line of prose
Wrap(text) ==
    <<"Here", SP, "is", SP, "the", SP, "plan", ":", NL, FENCE, "json", NL>> \o text \o <<NL, FENCE>>

\* replies that are no planning document, or one only for a lenient decoder
OtherTexts ==
    {<<"42">>, <<"0">>, <<"true">>, <<"false">>, <<"null">>, <<DQ, "abc", DQ>>,
     <<"I", SP, "cannot", SP, "help">>, <<"{", DQ, "message", DQ, ":">>, <<>>,
     <<"{", SQ, "message", SQ, ":", SP, SQ, "hi", SQ, ",", SP, "operations", ":", SP,
       "[", "]", ",", "}">>,
     Dumps(JList(OpsOne), FALSE)}

ParseInputs ==
    {[raw |-> IF w THEN Wrap(Dumps(d, p)) ELSE Dumps(d, p), plain |-> Dumps(d, p),
      doc |-> d, wrapped |-> w] : d \in PlanDocs, p \in BOOLEAN, w \in BOOLEAN}
    \cup {[raw |-> t, plain |-> t, doc |-> PyNone, wrapped |-> FALSE] : t \in OtherTexts}

\* what the repair call may answer
RepairTexts ==
    {Dumps(PlanDoc(MsgPlain, OpsOne), FALSE), Wrap(Dumps(PlanDoc(<<"Fixed">>, <<>>), TRUE)),
     <<"I", SP, "cannot">>, <<"42">>, <<>>}

\* pyjson5 may be installed or not; LUMINA_DIRECT_REPAIR_JSON may switch the
\* repair off
ParseInit ==
    /\ pc = "parse"
    /\ \E x \in ParseInputs, j \in BOOLEAN, r \in BOOLEAN :
          arg = [raw |-> x.raw, plain |-> x.plain, doc |-> x.doc, wrapped |-> x.wrapped,
                 json5 |-> j, repair |-> r]
    /\ ctx = NewContext(FullGraph, {})
    /\ definitions = StdDefs
    /\ calls = <<>>
    /\ req = Request(FullGraph, StdDefs, "add a red color", "", <<>>)
    /\ mode = "architect"
    /\ work = NoWork
    /\ resp = NoResp
    /\ trace = <<>>
    /\ result = NoResult
    /\ assets = {}

\* the rest of _direct_plan_ops once `data` is settled
PlanOf(c, v, raw, repaired) ==
    Let(DataOf(v, raw), LAMBDA data :
    Let(DirectPlanFromData(c, data), LAMBDA r :
        [kind |-> "plan", decoded |-> data.kind, repaired |-> repaired,
         raised |-> r.raised, msg |-> r.msg, ops |-> r.ops]))

\* the planner's reply arrives and is decoded
DecodeReply ==
    /\ pc = "parse"
    /\ \E raw \in {StripText(arg.raw)} :
       \E data \in {ParseJsonish(raw, arg.json5)} :
       \E block \in {ExtractFirstJsonBlock(StripMarkdownFences(raw))} :
       \E repair_input \in {StripText(IF block # <<>> THEN block ELSE raw)} :
          IF data[1] = "none" /\ arg.repair /\ repair_input # <<>>
          THEN /\ pc' = "repair"
               /\ result' = [kind |-> "repairing", input |-> repair_input]
          ELSE /\ pc' = "parsed"
               /\ result' = PlanOf(ctx, data, raw, FALSE)
    /\ UNCHANGED <<ctx, calls, definitions, req, mode, work, resp, trace, arg, assets>>

\* the repair call answers
DecodeRepair(reply) ==
    /\ pc = "repair"
    /\ result' = PlanOf(ctx, ParseJsonish(StripText(reply), arg.json5), StripText(arg.raw), TRUE)
    /\ pc' = "parsed"
    /\ UNCHANGED <<ctx, calls, definitions, req, mode, work, resp, trace, arg, assets>>

\* the repair call raises: the exception is caught and `data` stays None
RepairRaises ==
    /\ pc = "repair"
    /\ result' = PlanOf(ctx, PyNone, StripText(arg.raw), TRUE)
    /\ pc' = "parsed"
    /\ UNCHANGED <<ctx, calls, definitions, req, mode, work, resp, trace, arg, assets>>

ParseNext ==
    \/ DecodeReply
    \/ \E reply \in RepairTexts : DecodeRepair(reply)
    \/ RepairRaises

SpecParse == ParseInit /\ [][ParseNext]_vars

\* C6: a well-formed strict-JSON planning document, sent as it is, draws no
\* repair call and comes back with its message and as many operations as it
\* holds.
C6_StrictJsonRoundTrip ==
    /\ pc = "repair" => (arg.doc[1] = "none" \/ arg.wrapped)
    /\ (pc = "parsed" /\ arg.doc[1] # "none" /\ ~arg.wrapped) =>
          /\ ~result.raised /\ ~result.repaired
          /\ result.msg = DocMessage(arg.doc)
          /\ Len(result.ops) = Len(DocOps(arg.doc))

\* C7: a well-formed planning document in a fenced block after a line of
\* prose decodes to what the document alone decodes to, and gives the same
\* message and operations.
C7_FencedParsesSame ==
    (pc \in {"parsed", "repair"} /\ arg.doc[1] # "none" /\ arg.wrapped) =>
        LET bare == ParseJsonish(StripText(arg.plain), arg.json5)
        IN /\ pc = "parsed"
           /\ ParseJsonish(StripText(arg.raw), arg.json5) = bare
           /\ result = PlanOf(ctx, bare, StripText(arg.raw), FALSE)

\* C10: a reply that decodes to nothing, repair included, or to a number, a
\* string or a boolean, gives a plan without operations whose message is the
\* reply, and nothing is raised.
C10_UnusableDegrades ==
    (pc = "parsed" /\ result.decoded \in {"none", "scalar"}) =>
        /\ ~result.raised
        /\ result.ops = <<>>
        /\ result.msg = StripText(arg.raw)

----------------------------------------------------------------------------
(* Uploads in the final log *)

\* the contents stored at the request's start, in order
PersistedContents == UniqueAttachments(UserAttachments(req.atts), <<>>)
AttachmentContents == {ContentOf(req.atts[i]) : i \in 1..Len(req.atts)}

\* the upload_asset operation op carries the bytes that hash to h: its asset
\* is the one stored under h at the start, or the one a call of upload_asset
\* stored from those bytes
Carries(op, h) ==
    \/ op.assetId = AssetId(h)
    \/ \E k \in 1..Len(calls) :
          /\ calls[k].tool = "upload_asset" /\ calls[k].ret = op.assetId
          /\ calls[k].value = <<"bytes", h>>

\* C11: a response that is not the error answer holds exactly one
\* upload_asset per content stored at the request's start, whichever tier
\* supplied the rest; no two upload_asset operations carry the same attachment
\* bytes; and no upload_asset a planning document proposed is in the log.
C11_UploadsOncePerContent ==
    (pc = "done" /\ resp.status # "error") =>
        LET ups == UploadOps(resp.operations)
        IN /\ \A k \in 1..Len(PersistedContents) :
                 Cardinality({i \in 1..Len(ups) :
                                 ups[i].assetId = AssetId(PersistedContents[k])}) = 1
           /\ \A i, j \in 1..Len(ups) : \A h \in AttachmentContents :
                 (Carries(ups[i], h) /\ Carries(ups[j], h)) => i = j
           /\ \A i \in 1..Len(ups) : ups[i].assetId # Nm("planned")

----------------------------------------------------------------------------
(* Kinds of the final log *)

KindsOf(ops) == {ops[i].op : i \in 1..Len(ops)}

\* the eight kinds of the operation variant
EightKinds == {"add_node", "remove_node", "add_connection", "remove_connection",
               "update_node_data", "move_node", "upload_asset", "request_previews"}

----------------------------------------------------------------------------
(* Two requests served at once by the one agent.  chat_endpoint hands each  *)
(* request to a worker thread; the first request lives in the variables of  *)
(* the pipeline, the second in `arg`, a record of the same locals.  The     *)
(* catalog and the asset store are the agent's and are shared.              *)

MaxPairCalls == 2

PairFirst == Request(OutputOnly, StdDefs, "why is it dark?", "ask", <<1>>)
PairSecond == Request(FullGraph, StdDefs, "why is it dark?", "ask", <<1, 2>>)
PairRequests == {PairFirst, PairSecond}

PairInit ==
    /\ pc = "start"
    /\ req \in PairRequests
    /\ ctx = NewContext(req.graph, {})
    /\ calls = <<>>
    /\ definitions = StdDefs
    /\ mode = ""
    /\ work = NoWork
    /\ resp = NoResp
    /\ trace = <<>>
    /\ \E r2 \in PairRequests :
          arg = [pc |-> "start", req |-> r2, ctx |-> NewContext(r2.graph, {}),
                 calls |-> <<>>, mode |-> "", resp |-> NoResp]
    /\ result = NoResult
    /\ assets = {}

\* the frame of a step of the second request
OtherFrame == UNCHANGED <<pc, ctx, calls, definitions, req, mode, work, resp, trace, result>>

\* process_request up to the tool-calling run, for a request with a command
OtherStart ==
    /\ arg.pc = "start" /\ arg.req.cmd # ""
    /\ \E c1 \in {PersistAttachments(arg.ctx, arg.req.atts)} :
          /\ arg' = [arg EXCEPT !.ctx = c1, !.pc = "primary",
                                !.mode = FinalMode(arg.req.cmd, TRUE, arg.ctx.graph_nodes)]
          /\ assets' = assets \cup {c1.uploaded_attachment_asset_ids[i] :
                                       i \in 1..Len(c1.uploaded_attachment_asset_ids)}
    /\ OtherFrame

OtherAddNode(type) ==
    /\ arg.pc = "primary" /\ Len(arg.calls) < MaxPairCalls
    /\ \E r \in {AddNodeTool(arg.ctx, type)} :
          arg' = [arg EXCEPT !.ctx = r.c,
                             !.calls = Append(@, Call("add_node", type, <<>>, NoValue, r.ret,
                                                      arg.ctx, r.c))]
    /\ UNCHANGED assets
    /\ OtherFrame

OtherConnectNodes(s, ss, t, ts) ==
    /\ arg.pc = "primary" /\ Len(arg.calls) < MaxPairCalls
    /\ \E r \in {ConnectNodesTool(arg.ctx, s, ss, t, ts)} :
          arg' = [arg EXCEPT !.ctx = r.c,
                             !.calls = Append(@, Call("connect_nodes", "", <<s, t>>, NoValue,
                                                      r.ret, arg.ctx, r.c))]
    /\ UNCHANGED assets
    /\ OtherFrame

OtherUploadAsset ==
    /\ arg.pc = "primary" /\ Len(arg.calls) < MaxPairCalls
    /\ arg.req.atts # <<>>
    /\ \E r \in UploadAssetTool(arg.ctx, arg.req.atts) :
          /\ arg' = [arg EXCEPT !.ctx = r.c,
                                !.calls = Append(@, Call("upload_asset", "", <<>>, NoValue,
                                                         r.ret, arg.ctx, r.c))]
          /\ assets' = assets \cup r.put
    /\ OtherFrame

\* the run of the second request ends with the final text `text`
OtherPrimaryEnd(text) ==
    /\ arg.pc = "primary"
    /\ \E o \in {AfterPrimary(arg.ctx, text, arg.mode, arg.req.text)} :
          arg' = [arg EXCEPT !.pc = o.pc, !.ctx = o.c, !.resp = o.resp]
    /\ UNCHANGED assets
    /\ OtherFrame

\* a recorder call of the first request
FirstTool ==
    /\ Len(calls) < MaxPairCalls
    /\ \/ \E t \in RunTypes : AddNode(t)
       \/ ConnectNodes(NodeId(0), "out", Nm("output"), "color")
       \/ UploadAsset

PairNext ==
    \/ Start
    \/ FirstTool
    \/ \E text \in {"", "Done."} : PrimaryEnd(text)
    \/ OtherStart
    \/ \E t \in RunTypes : OtherAddNode(t)
    \/ OtherConnectNodes(NodeId(0), "out", Nm("output"), "color")
    \/ OtherUploadAsset
    \/ \E text \in {"", "Done."} : OtherPrimaryEnd(text)

SpecPair == PairInit /\ [][PairNext]_vars

\* one recorded call made again on the context c of a request rq
ReplayCall(c, rq, call) ==
    CASE call.tool = "add_node" -> AddNodeTool(c, call.type).c
      [] call.tool = "connect_nodes" ->
           ConnectNodesTool(c, call.ids[1], "out", call.ids[2], "color").c
      [] call.tool = "upload_asset" ->
           (CHOOSE r \in UploadAssetTool(c, rq.atts) : r.ret = call.ret).c
      [] OTHER -> c

RECURSIVE Alone(_, _, _)
\* the context of request rq after it made the first n of the calls cs with
\* no other request around
Alone(rq, cs, n) ==
    IF n = 0 THEN PersistAttachments(NewContext(rq.graph, {}), rq.atts)
    ELSE Let(Alone(rq, cs, n - 1), LAMBDA c : ReplayCall(c, rq, cs[n]))

\* the state of a request is the state it has when served alone: its context
\* during the run, its answer at the end
AsAlone(p, rq, c, cs, m, r) ==
    /\ p = "primary" => c = Alone(rq, cs, Len(cs))
    /\ p = "done" =>
          \E text \in {"", "Done."} :
             r = AfterPrimary(Alone(rq, cs, Len(cs)), text, m, rq.text).resp

\* C13: with two requests interleaved in any order, each request's context
\* (operation log, placeholder maps, id counters) and its answer are those
\* it has when served alone with the same snapshot, messages and model
\* outputs; a step of one request leaves the other request's locals as they
\* were; the catalog is never written.
C13_RequestsIsolated ==
    /\ [](AsAlone(pc, req, ctx, calls, mode, resp)
          /\ AsAlone(arg.pc, arg.req, arg.ctx, arg.calls, arg.mode, arg.resp))
    /\ [][/\ arg' # arg => UNCHANGED <<pc, ctx, calls, req, mode, work, resp, trace>>
          /\ <<pc, ctx, calls, resp>>' # <<pc, ctx, calls, resp>> => arg' = arg
          /\ definitions' = definitions]_vars

\* both requests created a node between each other's calls and both got
\* node_0; both were answered; the store holds the attachment they share once
C13_Witness ==
    /\ pc = "done" /\ arg.pc = "done" /\ req # arg.req
    /\ Len(calls) = 2 /\ Len(arg.calls) = 2
    /\ calls[1].ret = NodeId(0) /\ arg.calls[2].ret = NodeId(0)
    /\ OpAddNode(NodeId(0), "color") \in {resp.operations[i] : i \in 1..Len(resp.operations)}
    /\ OpAddNode(NodeId(0), "color") \in
          {arg.resp.operations[i] : i \in 1..Len(arg.resp.operations)}
    /\ assets = {AssetId(1), AssetId(2)}

\* ---------------------------------------------------------------------------
\* The primary run raises
\* ---------------------------------------------------------------------------
PlanTierTags == {"FALLBACK_PLAN", "RETRY_PLAN", "TEMPLATE_FALLBACK"}
TagsOf(tr) == {tr[i] : i \in 1..Len(tr)}

\* C14: a request whose primary run raised is answered with an error
\* message and an empty operation list, whatever the run had recorded, and
\* no plan, retry or template tier ran for it, before or after the answer.
C14_RaiseAnswersError ==
    /\ [](pc = "done" /\ resp.status = "error" =>
             /\ resp.message = <<"Error: ">>
             /\ resp.operations = <<>>
             /\ TagsOf(trace) \cap PlanTierTags = {})
    /\ [][pc = "done" => UNCHANGED <<pc, resp, trace>>]_vars

\* the run recorded operations and then raised
C14_Witness ==
    /\ pc = "done" /\ resp.status = "error"
    /\ Len(calls) > 1 /\ Len(ctx.operations) > 1

----------------------------------------------------------------------------
(* The endpoint: the request runs on a worker thread, the caller waits for it
   with a time limit *)

TimedRequests == {Request(OutputOnly, StdDefs, "make the flag wave", "", <<1>>)}

TimedInit ==
    /\ pc = "start"
    /\ req \in TimedRequests
    /\ ctx = NewContext(req.graph, {})
    /\ calls = <<>>
    /\ definitions = req.definitions
    /\ mode = ""
    /\ work = NoWork
    /\ resp = NoResp
    /\ trace = <<>>
    /\ arg = NoArg
    /\ result = NoResult
    /\ assets = {}

\* what the client is answered; `at` is the number of stages the worker had
\* completed when the answer was made
Answer(code, ops) == [kind |-> "answer", code |-> code, operations |-> ops, at |-> Len(trace)]

\* asyncio.wait_for gives up: the client is answered with the timeout error; the worker thread
\* is not told
Timeout ==
    /\ result = NoResult
    /\ pc # "done"
    /\ result' = Answer("timed out", <<>>)
    /\ UNCHANGED <<pc, ctx, calls, definitions, req, mode, work, resp, trace, arg, assets>>

\* the worker returned in time: its response is the answer
Deliver ==
    /\ result = NoResult
    /\ pc = "done"
    /\ result' = Answer("done", resp.operations)
    /\ UNCHANGED <<pc, ctx, calls, definitions, req, mode, work, resp, trace, arg, assets>>

TimedNext == Next \/ Timeout \/ Deliver

SpecTimed == TimedInit /\ [][TimedNext]_vars

TimedOut == result # NoResult /\ result.code = "timed out"

\* C15: a request that timed out is answered with a timeout error that
\* carries no operations, and once the stage in flight at that moment has
\* completed the worker does nothing more: no stage, no tool call, no write
\* to the asset store.
C15_AbandonedStops ==
    /\ [](TimedOut => result.operations = <<>>)
    /\ [][TimedOut /\ Len(trace) > result.at =>
             UNCHANGED <<pc, ctx, calls, work, resp, trace, assets>>]_vars

\* ---------------------------------------------------------------------------
\* Real ids and placeholders
\* ---------------------------------------------------------------------------
\* the ids of real nodes: the snapshot's and those add_node returned
RealNodeIds ==
    SnapshotIds(ctx.graph_nodes)
        \cup {calls[i].ret : i \in {j \in 1..Len(calls) : calls[j].tool = "add_node"}}

\* C16: after any sequence of recorder calls, every real node id (of the
\* snapshot or returned by add_node) resolves to itself: no sequential or
\* typed placeholder, nor the id guessed on singleton reuse, stands in front
\* of a real id.
C16_RealIdsResolveToThemselves ==
    \A X \in RealNodeIds : ResolveNodeId(ctx, X) = X

----------------------------------------------------------------------------
(* The resolver alone: creations on a fresh context, then one resolution *)

\* a candidate written with blanks around the id
Padded(id) == <<"padded", id>>

\* str(node_id or "").strip()
Strip(cand) == IF Len(cand) = 2 THEN cand[2] ELSE cand

\* _resolve_node_id on a candidate as the caller wrote it
ResolveCandidate(c, cand) == ResolveNodeId(c, Strip(cand))

ResolveTypes == {"color", "node", "output", ""}
ResolveIds == {Nm("output"), Nm("Output"), Nm("master"), Nm("Vertex"), NodeId(0), NodeId(1),
               <<"node", "", 1>>, <<"color", "-", 1>>, <<"node", "-", 1>>, Nm("ghost"), NoId}
ResolveCandidates == ResolveIds \cup {Padded(id) : id \in ResolveIds}

Resolved(c, cand, ret) == [kind |-> "resolved", c |-> c, cand |-> cand, ret |-> ret]

\* one call of _resolve_node_id
Resolve(cand) ==
    /\ pc = "primary"
    /\ result' = Resolved(ctx, cand, ResolveCandidate(ctx, cand))
    /\ UNCHANGED <<pc, ctx, calls, definitions, req, mode, work, resp, trace, arg, assets>>

ResolveNext ==
    \/ \E t \in ResolveTypes : AddNode(t)
    \/ \E cand \in ResolveCandidates : Resolve(cand)

SpecResolve == ToolsInit /\ [][ResolveNext]_vars

\* the rule that applies to the key k in the context c
AliasCase(c, k) ==
    \/ k \in VertexAliases /\ FirstOfType(c.node_types, "vertex") # NoId
    \/ k \in OutputAliases /\ FirstOfType(c.node_types, "output") # NoId
AliasTarget(c, k) ==
    IF k \in VertexAliases THEN FirstOfType(c.node_types, "vertex")
    ELSE FirstOfType(c.node_types, "output")
SequentialCase(c, k) == ~AliasCase(c, k) /\ k \in DOMAIN c.ph_map
TypedCase(c, k) == ~AliasCase(c, k) /\ k \notin DOMAIN c.ph_map /\ k \in DOMAIN c.typed_map
PassCase(c, k) == ~AliasCase(c, k) /\ k \notin DOMAIN c.ph_map /\ k \notin DOMAIN c.typed_map

\* rules (a), (b), (c) on the key of a resolution
PriorityRules(r) ==
    LET k == Lower(Strip(r.cand))
    IN /\ AliasCase(r.c, k) => r.ret = AliasTarget(r.c, k)
       /\ SequentialCase(r.c, k) => r.ret = r.c.ph_map[k]
       /\ TypedCase(r.c, k) => r.ret = r.c.typed_map[k]

\* C17 as stated: the resolver applies alias, sequential placeholder, typed
\* placeholder in this order, and a candidate that none of them covers is
\* returned unchanged; it leaves the context as it was.
C17_PriorityThenUnchanged ==
    /\ [](result # NoResult =>
             /\ PriorityRules(result)
             /\ PassCase(result.c, Lower(Strip(result.cand))) => result.ret = result.cand)
    /\ [][result' # result => ctx' = ctx]_vars

\* C17 amended: the candidate is first trimmed of surrounding blanks; the
\* rules apply to the trimmed candidate, compared case-insensitively, in the
\* order alias, sequential placeholder, typed placeholder; a candidate none
\* of them covers is returned trimmed; the context is left as it was.
C17_PriorityThenTrimmed ==
    /\ [](result # NoResult =>
             /\ PriorityRules(result)
             /\ PassCase(result.c, Lower(Strip(result.cand))) =>
                   result.ret = Strip(result.cand))
    /\ [][result' # result => ctx' = ctx]_vars

\* a candidate recorded both as a sequential and as a typed placeholder, for
\* different nodes, was resolved to the sequential one
C17_Witness ==
    /\ result # NoResult
    /\ LET k == Lower(Strip(result.cand))
       IN /\ SequentialCase(result.c, k) /\ k \in DOMAIN result.c.typed_map
          /\ result.c.typed_map[k] # result.c.ph_map[k]
          /\ result.ret = result.c.ph_map[k]

\* ---------------------------------------------------------------------------
\* What a creation records
\* ---------------------------------------------------------------------------
\* the number of add_node operations in the log ops, of the type ty
Created(ops) == Cardinality({i \in 1..Len(ops) : ops[i].op = "add_node"})
CreatedOfType(ops, ty) ==
    Cardinality({i \in 1..Len(ops) : ops[i].op = "add_node" /\ ops[i].nodeType = ty})

\* this step is an add_node call that created a node
CreationStep ==
    /\ Len(calls') = Len(calls) + 1
    /\ calls'[Len(calls')].tool = "add_node"
    /\ Len(ctx'.operations) = Len(ctx.operations) + 1

\* C18 as stated: both counters start at 1; right after the n-th creation of
\* a request, the m-th of its type, the new node is reached as sequential
\* placeholder number n and as typed placeholder <type>-m.
C18_BothCountFromOne ==
    [][CreationStep =>
          LET call == calls'[Len(calls')]
              n == Created(ctx'.operations)
              m == CreatedOfType(ctx'.operations, call.type)
          IN /\ ResolveNodeId(ctx', <<"node", "_", n>>) = call.ret
             /\ ResolveNodeId(ctx', <<call.type, "-", m>>) = call.ret]_vars

\* C18 amended: the n-th creation of a request, the m-th of its type, sets
\* the two spellings of sequential placeholder number n-1 (numbering starts
\* at 0) and the three spellings of typed placeholder number m (numbering
\* starts at 1) to the new id and changes no other entry of either map;
\* both counters advance by one; right after it the new node is reached as
\* node_<n-1> and as <type>-<m>.  A creation with an empty type records the
\* sequential placeholder only.
C18_SequentialFromZero ==
    [][CreationStep =>
          LET call == calls'[Len(calls')]
              n == Created(ctx'.operations)
              m == CreatedOfType(ctx'.operations, call.type)
          IN /\ ctx.ph_counter = n - 1 /\ ctx'.ph_counter = n
             /\ ctx'.ph_map = DictPut(DictPut(ctx.ph_map, <<"node", "_", n - 1>>, call.ret),
                                      <<"node", "", n - 1>>, call.ret)
             /\ ResolveNodeId(ctx', <<"node", "_", n - 1>>) = call.ret
             /\ IF call.type = ""
                THEN ctx'.typed_map = ctx.typed_map /\ ctx'.typed_counters = ctx.typed_counters
                ELSE /\ DictGet(ctx'.typed_counters, call.type, 0) = m
                     /\ ctx'.typed_map =
                           DictPut(DictPut(DictPut(ctx.typed_map,
                                                   <<call.type, "-", m>>, call.ret),
                                           <<call.type, "_", m>>, call.ret),
                                   <<call.type, "", m>>, call.ret)
                     /\ ResolveNodeId(ctx', <<call.type, "-", m>>) = call.ret]_vars

\* two colour nodes were created in a graph that holds node_0 already: the
\* second is node_3, reached as node_1 and as color-2
C18_Witness ==
    /\ ctx.graph_nodes = NumberedGraph
    /\ Len(calls) = 2 /\ ctx.ph_counter = 2
    /\ calls[1].tool = "add_node" /\ calls[1].type = "color" /\ calls[1].ret = NodeId(1)
    /\ calls[2].tool = "add_node" /\ calls[2].type = "color" /\ calls[2].ret = NodeId(3)
    /\ ResolveNodeId(ctx, NodeId(0)) = NodeId(1)
    /\ ResolveNodeId(ctx, NodeId(1)) = NodeId(3)
    /\ ResolveNodeId(ctx, <<"color", "-", 2>>) = NodeId(3)

\* ---------------------------------------------------------------------------
\* add_node on a master node that exists
\* ---------------------------------------------------------------------------
\* this step is an add_node call that returned an existing master node
ReuseStep ==
    /\ Len(calls') = Len(calls) + 1
    /\ calls'[Len(calls')].tool = "add_node"
    /\ ExistingSingleton(ctx, calls'[Len(calls')].type) # NoId

\* C19: add_node for a singleton type that exists returns the existing id,
\* records no operation and maps the next unused sequential node id to the
\* singleton without reserving it: right afterwards that id resolves to the
\* singleton, it is still unused, and it is the id the next creation
\* receives, whatever calls come in between.
C19_GuessedIdNotReserved ==
    [][/\ ReuseStep =>
             LET call == calls'[Len(calls')]
                 guessed == PeekNextIncrementalId(ctx)
             IN /\ call.ret = ExistingSingleton(ctx, call.type)
                /\ ctx'.operations = ctx.operations
                /\ ResolveNodeId(ctx', guessed) = call.ret
                /\ guessed \notin ctx'.existing_node_ids
                /\ ctx'.counters = ctx.counters
                /\ PeekNextIncrementalId(ctx') = guessed
       /\ CreationStep => calls'[Len(calls')].ret = PeekNextIncrementalId(ctx)
       /\ ~CreationStep => PeekNextIncrementalId(ctx') = PeekNextIncrementalId(ctx)]_vars

\* the output node node_2 was asked for again, node_1 was guessed for it,
\* and the creation that followed received node_1
C19_Witness ==
    /\ ctx.graph_nodes = NumberedGraph /\ Len(calls) = 2
    /\ calls[1].tool = "add_node" /\ calls[1].type = "output"
    /\ calls[1].ret = NodeId(2) /\ calls[1].after = calls[1].before
    /\ calls[2].tool = "add_node" /\ calls[2].type = "color"
    /\ calls[2].ret = NodeId(1) /\ calls[2].after = calls[2].before + 1
    /\ NodeId(1) \in DOMAIN ctx.ph_map

\* ---------------------------------------------------------------------------
\* The order of the tiers
\* ---------------------------------------------------------------------------
\* the tiers a request went through, in order, without the classification
\* call and the repair round-trips
Tiers == SelectSeq(trace, LAMBDA tag : tag \notin {"ROUTE", "REPAIR"})
Position(tag) == CHOOSE i \in 1..Len(trace) : trace[i] = tag
Once(tag) == Cardinality({i \in 1..Len(trace) : trace[i] = tag}) <= 1
Before(a, b) == a \in TagsOf(trace) /\ Position(a) < Position(b)

TierPaths ==
    {<<"PRIMARY">>,
     <<"PRIMARY", "RETRY_PLAN">>,
     <<"PRIMARY", "FALLBACK_PLAN">>,
     <<"PRIMARY", "FALLBACK_PLAN", "RETRY_PLAN">>,
     <<"PRIMARY", "FALLBACK_PLAN", "TEMPLATE_FALLBACK">>,
     <<"PRIMARY", "FALLBACK_PLAN", "RETRY_PLAN", "TEMPLATE_FALLBACK">>}

----------------------------------------------------------------------------
(* The pipeline when every model call returns: a step that can be taken is
   taken *)

SpecLive == TimedInit /\ [][Next]_vars /\ WF_vars(Next)

\* the number of model calls of one kind that a request made
CallsMade(tag) == Cardinality({i \in 1..Len(trace) : trace[i] = tag})
\* the repair round-trips that belong to the planner call at position i
RepairsOf(i) ==
    Cardinality({j \in (i + 1)..Len(trace) :
                    /\ trace[j] = "REPAIR"
                    /\ \A k \in (i + 1)..j : trace[k] = "REPAIR"})

\* C21: when every model call returns, every request is answered in the
\* end; on the way it makes at most one classification call, at most one
\* FALLBACK_PLAN planner call and at most one RETRY_PLAN planner call, each
\* planner call is followed by at most one repair round-trip and no repair
\* happens without a planner call before it; one call is made at a time.
C21_AnsweredWithFewCalls ==
    /\ <>(pc = "done" /\ resp # NoResp)
    /\ [](/\ CallsMade("ROUTE") <= 1
          /\ CallsMade("FALLBACK_PLAN") <= 1
          /\ CallsMade("RETRY_PLAN") <= 1
          /\ \A i \in 1..Len(trace) :
                trace[i] \in {"FALLBACK_PLAN", "RETRY_PLAN"} => RepairsOf(i) <= 1
          /\ CallsMade("REPAIR") <= CallsMade("FALLBACK_PLAN") + CallsMade("RETRY_PLAN"))
    /\ [][Len(trace') <= Len(trace) + 2]_vars

\* a request answered after the classification call, both planner calls and
\* a repair round-trip for each
C21_Witness ==
    /\ pc = "done" /\ resp # NoResp
    /\ CallsMade("ROUTE") = 1 /\ CallsMade("FALLBACK_PLAN") = 1
    /\ CallsMade("RETRY_PLAN") = 1 /\ CallsMade("REPAIR") = 2

\* ---------------------------------------------------------------------------
\* When the fallback planner is asked
\* ---------------------------------------------------------------------------
\* the step that ends the tool-calling run with the final text `text`
EndsRunWith(text) ==
    /\ pc = "primary" /\ pc' # "primary" /\ resp'.status # "error"
    /\ \E o \in {AfterPrimary(ctx, text, mode, req.text)} :
          pc' = o.pc /\ ctx' = o.c /\ work'.message = o.message /\ resp' = o.resp

\* C22: FALLBACK_PLAN is entered exactly when the tool-calling run ended
\* without final text and without having recorded an operation other than
\* upload_asset; a run that recorded such operations never enters it, even
\* when the validator drops them all.
C22_FallbackIffRunEmpty ==
    [][\A text \in {"", "Done."} :
          EndsRunWith(text) =>
             (pc' = "fallback" <=> (text = "" /\ NonUploadOps(ctx.operations) = <<>>))]_vars

----------------------------------------------------------------------------
(* The retry decision alone: _should_retry_empty_ops on any short log *)

MaxRetryLog == 2

RetryModes == {"architect", "editor", "refiner", "consultant"}
RetryTexts == {"", "add a red color", "why is it dark?", "make the flag wave",
               "how do I add a color?"}
RetryLogs == UNION {[1..n -> {[BlankOp EXCEPT !.op = k] : k \in OpLiteral}] :
                       n \in 0..MaxRetryLog}

RetryInit ==
    /\ pc = "deciding"
    /\ arg \in [mode : RetryModes, user_text : RetryTexts, ops : RetryLogs]
    /\ ctx = NewContext(<<>>, {})
    /\ calls = <<>>
    /\ definitions = StdDefs
    /\ req = Request(<<>>, StdDefs, arg.user_text, "", <<>>)
    /\ mode = arg.mode
    /\ work = NoWork
    /\ resp = NoResp
    /\ trace = <<>>
    /\ result = NoResult
    /\ assets = {}

\* one call of _should_retry_empty_ops
Decide ==
    /\ pc = "deciding"
    /\ pc' = "decided"
    /\ result' = [kind |-> "decision",
                  ret |-> ShouldRetryEmptyOps(arg.mode, arg.user_text, arg.ops)]
    /\ UNCHANGED <<ctx, calls, definitions, req, mode, work, resp, trace, arg, assets>>

SpecRetry == RetryInit /\ [][Decide]_vars

\* the kinds of a log without upload_asset and request_previews
KeptKinds(ops) == {ops[i].op : i \in 1..Len(ops)} \ {"upload_asset", "request_previews"}
WiringOrEdit ==
    {"add_connection", "remove_connection", "update_node_data", "remove_node", "move_node"}
PureQuestion(t) == LooksLikeQuestion(t) /\ ~Actionish(t)

RetryEnds == pc \in {"retry_fallback", "retry_primary"} /\ pc' = "done"

\* C24: when RETRY_PLAN ends, the log and the message are those held before
\* the retry unless the log now holds an operation other than upload_asset
\* and request_previews.
C24_AdoptedOnlyIfMeaningful ==
    [][RetryEnds =>
          \/ ctx'.operations = ctx.operations /\ resp'.message = work.message
          \/ KeptKinds(ctx'.operations) # {}]_vars

\* ---------------------------------------------------------------------------
\* The template as the last resort
\* ---------------------------------------------------------------------------
HasVertexMaster(c) ==
    \E i \in 1..Len(c.node_types) : LowerStr(c.node_types[i].type) = "vertex"

\* C25: a request answered after its tiers, whose text matches the flag and
\* motion pattern and whose graph has a vertex master node, never ends with
\* a log that holds nothing beyond uploads and preview requests, whether the
\* tool-calling run returned text or not: the template fills it; and the
\* template runs for no other request.
C25_TemplateLastResort ==
    /\ (pc = "done" /\ resp.status = "ok" /\ IsFlagMotion(req.text) /\ HasVertexMaster(ctx))
          => KeptKinds(resp.operations) # {}
    /\ "TEMPLATE_FALLBACK" \in TagsOf(trace) =>
          IsFlagMotion(req.text) /\ HasVertexMaster(ctx)

----------------------------------------------------------------------------
(* Requests on a graph with a customFunction node: its sockets are declared
   and its code is set, by the tools or by a plan *)

CustomGraph ==
    <<[id |-> Nm("f"), type |-> "customFunction"], [id |-> Nm("out1"), type |-> "output"]>>

Snippet == <<"code", "snippet", [i |-> <<>>, o |-> <<>>]>>
SocketsA == <<"list", <<"a">>>>
SocketsAB == <<"list", <<"a", "b">>>>
SocketsR == <<"list", <<"r">>>>
CustomUpdates ==
    {<<"customInputs", SocketsA>>, <<"customInputs", SocketsAB>>,
     <<"customOutputs", SocketsR>>, <<"code", Snippet>>}

PlanUpdate(key, value) ==
    [op |-> "update_node_data", nodeId |-> Nm("f"), dataKey |-> key, dataValue |-> value]
CustomReplies ==
    {Doc("Declared the sockets and set the code",
         <<PlanUpdate("customInputs", SocketsA), PlanUpdate("customOutputs", SocketsR),
           PlanUpdate("code", Snippet)>>),
     Doc("Set the code", <<PlanUpdate("code", Snippet)>>),
     DocNothing}

CustomInit ==
    /\ pc = "start"
    /\ req = Request(CustomGraph, StdDefs, "add a red color", "edit", <<>>)
    /\ ctx = NewContext(req.graph, {})
    /\ calls = <<>>
    /\ definitions = req.definitions
    /\ mode = ""
    /\ work = NoWork
    /\ resp = NoResp
    /\ trace = <<>>
    /\ arg = NoArg
    /\ result = NoResult
    /\ assets = {}

CustomNext ==
    \/ Start
    \/ \E u \in CustomUpdates : UpdateNodeValue(Nm("f"), u[1], u[2])
    \/ \E text \in {"", "Done."} : PrimaryEnd(text)
    \/ \E p \in CustomReplies : PlanReply(p)

SpecCustom == CustomInit /\ [][CustomNext]_vars

\* the socket list declared for the node of ops[i] under `key` by the last
\* update before position i; the snapshot's (empty here) when there is none
DeclaredBefore(ops, i, key) ==
    LET js == {j \in 1..(i - 1) :
                  /\ ops[j].op = "update_node_data" /\ ops[j].nodeId = ops[i].nodeId
                  /\ ops[j].dataKey = key /\ ops[j].dataValue[1] = "list"}
    IN IF js = {} THEN <<>>
       ELSE ops[CHOOSE j \in js : \A k \in js : k <= j].dataValue[2]

\* C26: in the final log, every update of the code of a customFunction node
\* has a main whose signature lists the inputs and then the outputs declared
\* for that node by the last customInputs and customOutputs updates before
\* it in the log (the snapshot's when there is none), whichever tier
\* produced the log.
C26_SignatureFollowsDeclared ==
    (pc = "done" /\ resp.status = "ok") =>
        \A i \in 1..Len(resp.operations) :
            LET op == resp.operations[i]
            IN (/\ op.op = "update_node_data" /\ op.dataKey = "code"
                /\ OGet(ctx.node_types, op.nodeId) = "customFunction") =>
                   op.dataValue =
                      <<"code", "main",
                        [i |-> DeclaredBefore(resp.operations, i, "customInputs"),
                         o |-> DeclaredBefore(resp.operations, i, "customOutputs")]>>

\* ---------------------------------------------------------------------------
\* upload_asset called more than once
\* ---------------------------------------------------------------------------
\* the upload_asset calls of the run that returned an id
UploadCalls == {i \in 1..Len(calls) : calls[i].tool = "upload_asset" /\ calls[i].ret # NoId}

\* C27: within one request, any two upload_asset calls return the same
\* asset id, and all of them together write the asset store at most once and
\* append at most one upload_asset; when an attachment was stored at the
\* request's start they write nothing and append nothing.
C27_UploadIdempotent ==
    /\ \A i, j \in UploadCalls : calls[i].ret = calls[j].ret
    /\ Cardinality({i \in UploadCalls : calls[i].value # NoValue}) <= 1
    /\ Cardinality({i \in UploadCalls : calls[i].after > calls[i].before}) <= 1
    /\ ctx.uploaded_attachment_asset_ids # <<>> =>
          \A i \in UploadCalls : calls[i].value = NoValue /\ calls[i].after = calls[i].before

----------------------------------------------------------------------------
(* The validator on logs that remove, re-create and refer to nodes *)

RemovalMenu ==
    {OpRemoveNode(Nm("a")),
     OpRemoveNode(Nm("master")),
     OpAddNode(Nm("a"), "color"),
     OpMoveNode(Nm("a")),
     OpMoveNode(Nm("ghost")),
     OpUpdateNodeData(Nm("master"), "color", <<"hex", "#ff0000">>),
     OpAddConnection(NoId, Nm("a"), "out", Nm("master"), "color"),
     OpRemoveConnection(Nm("a"), "out", Nm("master"), "color")}

RemovalLogs == UNION {[1..n -> RemovalMenu] : n \in 0..MaxLogLen}

RemovalInit ==
    /\ pc = "validate"
    /\ \E g \in {FullGraph, OutputOnly} : ctx = NewContext(g, {})
    /\ definitions \in {StdDefs, NoDefs}
    /\ arg \in RemovalLogs
    /\ calls = <<>>
    /\ req = Request(ctx.graph_nodes, definitions, "add a red color", "", <<>>)
    /\ mode = "architect"
    /\ work = NoWork
    /\ resp = NoResp
    /\ trace = <<>>
    /\ result = NoResult
    /\ assets = {}

SpecRemoval == RemovalInit /\ [][ValidateLog]_vars

NodeOpKinds == {"update_node_data", "move_node", "remove_node"}

\* the i-th operation is an update, a move or a removal of a node whose id,
\* remapped, is known when the walk reaches it
KnownNodeOp(c, ops, i) ==
    /\ ops[i].op \in NodeOpKinds
    /\ RemapMasterAlias(c, ops[i].nodeId) # NoId
    /\ KnownIdAt(c, ops, i, RemapMasterAlias(c, ops[i].nodeId))

RECURSIVE KnownNodeOps(_, _, _)
\* kind and remapped id of the known node operations among the first n, in order
KnownNodeOps(c, ops, n) ==
    IF n = 0 THEN <<>>
    ELSE IF KnownNodeOp(c, ops, n)
    THEN Append(KnownNodeOps(c, ops, n - 1), <<ops[n].op, RemapMasterAlias(c, ops[n].nodeId)>>)
    ELSE KnownNodeOps(c, ops, n - 1)

RECURSIVE NodeOpsOf(_, _)
\* kind and id of the node operations among the first n of a log, in order
NodeOpsOf(ops, n) ==
    IF n = 0 THEN <<>>
    ELSE IF ops[n].op \in NodeOpKinds
    THEN Append(NodeOpsOf(ops, n - 1), <<ops[n].op, ops[n].nodeId>>)
    ELSE NodeOpsOf(ops, n - 1)

\* the node ids the i-th operation refers to, as the kinds in `kinds` refer to them
NamedIds(c, ops, i, kinds) ==
    IF ops[i].op \notin kinds THEN {}
    ELSE IF ops[i].op \in NodeOpKinds THEN {RemapMasterAlias(c, ops[i].nodeId)}
    ELSE {RemapMasterAlias(c, ops[i].sourceNodeId), RemapMasterAlias(c, ops[i].targetNodeId)}

\* the i-th operation is an emitted remove_node of X, the j-th is a later
\* operation of one of the kinds that refers to X, and no add_node between
\* them re-creates X
RefersToRemoved(c, ops, i, j, kinds) ==
    /\ i < j
    /\ ops[i].op = "remove_node"
    /\ KnownNodeOp(c, ops, i)
    /\ RemapMasterAlias(c, ops[i].nodeId) \in NamedIds(c, ops, j, kinds)
    /\ \A k \in (i+1)..(j-1) :
          ~(ops[k].op = "add_node" /\ ops[k].nodeId = RemapMasterAlias(c, ops[i].nodeId))

\* the emitted node operations are exactly the known ones, each unknown one
\* draws one warning and each known one none; emitted connections had known ends
NodeOpsEmittedIffKnown ==
    /\ NodeOpsOf(result.ops, Len(result.ops)) = KnownNodeOps(ctx, arg, Len(arg))
    /\ \A i \in 1..Len(arg) :
          arg[i].op \in NodeOpKinds =>
              IF KnownNodeOp(ctx, arg, i) THEN WarningsAt(i) = {}
              ELSE /\ Cardinality(WarningsAt(i)) = 1
                   /\ \A w \in WarningsAt(i) : w.op = arg[i].op
    /\ EmitsOnlyKnown

RemoveConnectionsOf(ops) == SelectSeq(ops, LAMBDA o : o.op = "remove_connection")

----------------------------------------------------------------------------
(* The validator on connections to and from the master nodes *)

SocketMenu ==
    {OpAddConnection(NoId, Nm("a"), "out", Nm("master"), "color"),
     OpAddConnection(NoId, Nm("a"), "out", Nm("master"), "bogus"),
     OpAddConnection(NoId, Nm("a"), "out", Nm("vertex"), "position"),
     OpAddConnection(NoId, Nm("master"), "out", Nm("a"), "in"),
     OpAddConnection(NoId, Nm("a"), "", Nm("master"), "color"),
     OpAddConnection(NoId, Nm("a"), "weird", Nm("a"), "odd")}

SocketLogs == UNION {[1..n -> SocketMenu] : n \in 0..MaxLogLen}

SocketInit ==
    /\ pc = "validate"
    /\ \E g \in {FullGraph, OutputOnly} : ctx = NewContext(g, {})
    /\ definitions \in {StdDefs, NoDefs}
    /\ arg \in SocketLogs
    /\ calls = <<>>
    /\ req = Request(ctx.graph_nodes, definitions, "add a red color", "", <<>>)
    /\ mode = "architect"
    /\ work = NoWork
    /\ resp = NoResp
    /\ trace = <<>>
    /\ result = NoResult
    /\ assets = {}

SpecSockets == SocketInit /\ [][ValidateLog]_vars

\* the type, lower-cased, the snapshot gives a node
SnapshotType(c, id) == LowerStr(OGet(c.node_types, id))

\* socket `s` of node `id` passes: the node is no singleton, or the catalog
\* has nothing on its type, or the socket is among those the type declares
\* for the direction
SocketDeclared(c, defs, id, s, kind) ==
    (SnapshotType(c, id) \in SingletonTypes /\ SnapshotType(c, id) \in DOMAIN defs) =>
        s \in (IF kind = "out" THEN defs[SnapshotType(c, id)].outputs
               ELSE defs[SnapshotType(c, id)].inputs)

\* the connection has both ends known, both socket ids, and declared sockets
\* at its singleton ends
ConnectionSound(c, defs, ops, i) ==
    /\ AbsentEndpoints(c, ops, i) = {}
    /\ ops[i].sourceSocketId # "" /\ ops[i].targetSocketId # ""
    /\ SocketDeclared(c, defs, RemapMasterAlias(c, ops[i].sourceNodeId), ops[i].sourceSocketId, "out")
    /\ SocketDeclared(c, defs, RemapMasterAlias(c, ops[i].targetNodeId), ops[i].targetSocketId, "in")

RECURSIVE SoundConnections(_, _, _, _)
\* the sound connections among the first n, ends remapped, in order
SoundConnections(c, defs, ops, n) ==
    IF n = 0 THEN <<>>
    ELSE IF ConnectionSound(c, defs, ops, n)
    THEN Append(SoundConnections(c, defs, ops, n - 1),
                [ops[n] EXCEPT !.sourceNodeId = RemapMasterAlias(c, @),
                               !.targetNodeId = RemapMasterAlias(c, @)])
    ELSE SoundConnections(c, defs, ops, n - 1)

\* C29: of a log of connections the validator emits exactly those with known
\* ends, non-empty socket ids and, at every end that is an output or vertex
\* node the catalog defines, a socket id the type declares for that direction;
\* each other connection is dropped with one warning; sockets of other nodes
\* are not looked at.
C29_SingletonSocketsChecked ==
    pc = "validated" =>
        /\ result.ops = SoundConnections(ctx, definitions, arg, Len(arg))
        /\ \A i \in 1..Len(arg) :
              IF ConnectionSound(ctx, definitions, arg, i) THEN WarningsAt(i) = {}
              ELSE Cardinality(WarningsAt(i)) = 1

----------------------------------------------------------------------------
(* The optimizer on a log that holds the full chain *)

\* connections a, b, c of the log are the full chain: a feeds the sample's
\* "texture" from a texture2D node, b feeds its "uv" from a uv node's "out",
\* c is the sample's only outgoing connection and leaves from rgba/out; the
\* three nodes are created in the log, the uv node feeds the sample only, and
\* neither the sample nor the uv node is updated
FullChain(ops, a, b, c) ==
    LET samp == ops[a].targetNodeId
        uv == ops[b].sourceNodeId
    IN /\ samp # NoId /\ CreatesType(ops, samp, "sampleTexture2D")
       /\ ops[a].targetSocketId = "texture"
       /\ \A k \in Connections(ops) :
             (ops[k].targetNodeId = samp /\ ops[k].targetSocketId = "texture") => a <= k
       /\ ops[a].sourceSocketId \in {"out", "tex", "texture"}
       /\ CreatesType(ops, ops[a].sourceNodeId, "texture2D")
       /\ ops[b].targetNodeId = samp /\ ops[b].targetSocketId = "uv"
       /\ \A k \in Connections(ops) :
             (ops[k].targetNodeId = samp /\ ops[k].targetSocketId = "uv") => b <= k
       /\ ops[b].sourceSocketId = "out"
       /\ CreatesType(ops, uv, "uv")
       /\ ops[c].sourceNodeId = samp /\ ops[c].sourceSocketId \in {"rgba", "out"}
       /\ \A k \in Connections(ops) : ops[k].sourceNodeId = samp => k = c
       /\ \A k \in Connections(ops) : ops[k].sourceNodeId = uv => k = b
       /\ \A k \in 1..Len(ops) :
             ~(ops[k].op = "update_node_data" /\ ops[k].nodeId \in {samp, uv})

\* the log with the sample and uv nodes' add_node and the connections a and b
\* taken out and the connection c replaced, where it stands, by one from the
\* texture node's "rgba" to c's target
DirectLink(ops, a, b, c) ==
    LET gone == {i \in 1..Len(ops) :
                    \/ i \in {a, b}
                    \/ /\ ops[i].op = "add_node"
                       /\ ops[i].nodeId \in {ops[a].targetNodeId, ops[b].sourceNodeId}}
        link == OpAddConnection(NoId, ops[a].sourceNodeId, "rgba",
                                ops[c].targetNodeId, ops[c].targetSocketId)
    IN Pick([ops EXCEPT ![c] = link], (1..Len(ops)) \ gone, 1)

\* a log with the connection ids left out
SansConnIds(ops) == [k \in 1..Len(ops) |-> [ops[k] EXCEPT !.connectionId = NoId]]

\* C30: on a log that holds the full chain the optimizer returns the log
\* without the sample and uv nodes' add_node and without the three connections
\* of the chain, with one new connection from the texture node's "rgba" to the
\* original consumer in the place of the sample's outgoing connection, every
\* other operation as it was and in its order, and no connection that names a
\* removed node.
C30_FullChainRewritten ==
    pc = "optimized" =>
        \A a \in Connections(arg), b \in Connections(arg), c \in Connections(arg) :
            FullChain(arg, a, b, c) =>
                /\ SansConnIds(result.ops) = SansConnIds(DirectLink(arg, a, b, c))
                /\ \A k \in Connections(result.ops) :
                      {result.ops[k].sourceNodeId, result.ops[k].targetNodeId}
                          \cap {arg[a].targetNodeId, arg[b].sourceNodeId} = {}

----------------------------------------------------------------------------
(* The fallback planner on documents that plan a master node again *)

PlanMenu ==
    {[op |-> "add_node", nodeId |-> Nm("o1"), nodeType |-> "output"],
     [tool |-> "addNode", id |-> Nm("v9"), type |-> "Vertex"],
     [op |-> "add_node", nodeId |-> Nm("n1"), nodeType |-> "float"],
     [op |-> "add_connection", sourceNodeId |-> Nm("n1"), sourceSocketId |-> "out",
      targetNodeId |-> Nm("o1"), targetSocketId |-> "alpha"],
     [op |-> "remove_connection", sourceNodeId |-> Nm("v9"), sourceSocketId |-> "out",
      targetNodeId |-> Nm("o1"), targetSocketId |-> "alpha"],
     [op |-> "update_node_data", nodeId |-> Nm("o1"), dataKey |-> "label",
      dataValue |-> <<"str", "Master">>],
     [op |-> "move_node", nodeId |-> Nm("v9")],
     [op |-> "remove_node", nodeId |-> Nm("o1")]}

MasterDocs == {Doc("Rebuilt", items) : items \in UNION {[1..n -> PlanMenu] : n \in 0..MaxLogLen}}

PlanInit ==
    /\ pc = "plan"
    /\ \E g \in {FullGraph, OutputOnly, EmptyGraph} : ctx = NewContext(g, {})
    /\ definitions = StdDefs
    /\ arg \in MasterDocs
    /\ calls = <<>>
    /\ req = Request(ctx.graph_nodes, definitions, "add a red color", "", <<>>)
    /\ mode = "architect"
    /\ work = NoWork
    /\ resp = NoResp
    /\ trace = <<>>
    /\ result = NoResult
    /\ assets = {}

\* _direct_plan_ops from the decoded document on
PlanDocument ==
    /\ pc = "plan"
    /\ LET r == DirectPlanFromData(ctx, arg)
       IN result' = [kind |-> "planned", ops |-> r.ops, msg |-> r.msg]
    /\ pc' = "planned"
    /\ UNCHANGED <<ctx, calls, definitions, req, mode, work, trace, arg, resp, assets>>

SpecPlan == PlanInit /\ [][PlanDocument]_vars

\* the operations the document plans, before they are sanitized
PlannedOps == ParseItems(arg.operations)

\* the snapshot holds a node of singleton type t
SnapshotSingleton(t) ==
    /\ t \in SingletonTypes
    /\ \E k \in 1..Len(ctx.graph_nodes) : LowerStr(ctx.graph_nodes[k].type) = t

\* the id of the snapshot's node of type t
SnapshotSingletonId(t) ==
    ctx.graph_nodes[CHOOSE k \in 1..Len(ctx.graph_nodes) :
                        LowerStr(ctx.graph_nodes[k].type) = t].id

\* the types of the singletons the snapshot holds that the document creates
\* again under the id X
DuplicatedAs(X) ==
    {LowerStr(PlannedOps[i].nodeType) : i \in {j \in 1..Len(PlannedOps) :
        /\ PlannedOps[j].op = "add_node" /\ PlannedOps[j].nodeId = X /\ X # NoId
        /\ SnapshotSingleton(LowerStr(PlannedOps[j].nodeType))}}

\* an id of the document as the plan must carry it
Redirected(X) ==
    IF DuplicatedAs(X) = {} THEN X
    ELSE SnapshotSingletonId(CHOOSE t \in DuplicatedAs(X) : TRUE)

\* a planned operation with its node references redirected
RedirectedOp(op) ==
    [op EXCEPT !.sourceNodeId = IF op.op \in {"add_connection", "remove_connection"}
                                THEN Redirected(@) ELSE @,
               !.targetNodeId = IF op.op \in {"add_connection", "remove_connection"}
                                THEN Redirected(@) ELSE @,
               !.nodeId = IF op.op \in NodeOpKinds THEN Redirected(@) ELSE @]

\* the planned operations that do not create an existing singleton again
NotDuplicates ==
    {i \in 1..Len(PlannedOps) :
        ~(PlannedOps[i].op = "add_node" /\ DuplicatedAs(PlannedOps[i].nodeId) # {}
          /\ LowerStr(PlannedOps[i].nodeType) \in DuplicatedAs(PlannedOps[i].nodeId))}

\* C31: when the snapshot holds a singleton and the document plans an add_node
\* of that type under an id X, the plan comes back without that add_node and
\* with every connection endpoint (add_connection, remove_connection) and
\* every node id of an update_node_data, move_node or remove_node that equals
\* X replaced by the id of the snapshot's singleton, whether the add_node
\* stands before or after the reference; everything else comes back as planned.
C31_DuplicateSingletonRedirected ==
    pc = "planned" =>
        result.ops = [k \in 1..Cardinality(NotDuplicates) |->
                         RedirectedOp(Pick(PlannedOps, NotDuplicates, 1)[k])]

C31_Witness ==
    /\ pc = "planned"
    /\ ctx.graph_nodes = FullGraph
    /\ Len(PlannedOps) = 3
    /\ PlannedOps[1] = OpAddConnection(NoId, Nm("n1"), "out", Nm("o1"), "alpha")
    /\ PlannedOps[2] = OpMoveNode(Nm("v9"))
    /\ PlannedOps[3] = OpAddNode(Nm("o1"), "output")
    /\ result.ops = <<OpAddConnection(NoId, Nm("n1"), "out", Nm("out1"), "alpha"),
                      OpMoveNode(Nm("v9"))>>

----------------------------------------------------------------------------
(* Uniqueness of node and connection ids *)

\* the recorder calls that allocated an id: a connect_nodes, or an add_node
\* that appended its operation
Allocating ==
    {k \in 1..Len(calls) :
        \/ calls[k].tool = "connect_nodes"
        \/ calls[k].tool = "add_node" /\ calls[k].after > calls[k].before}

\* every allocated id is new to the snapshot and to the earlier allocations
AllocatedIdsFresh ==
    \A k \in Allocating :
        /\ calls[k].ret # NoId
        /\ calls[k].ret \notin SnapshotIds(req.graph)
        /\ \A j \in Allocating : j < k => calls[j].ret # calls[k].ret

\* the positions of the add_node operations of a log
AddNodesOf(ops) == {i \in 1..Len(ops) : ops[i].op = "add_node"}

\* no two add_node of the log share a node id and none carries a snapshot id
AddNodeIdsUnique(ops) ==
    \A i \in AddNodesOf(ops) :
        /\ ops[i].nodeId \notin SnapshotIds(req.graph)
        /\ \A j \in AddNodesOf(ops) : j # i => ops[j].nodeId # ops[i].nodeId

\* C32: every id add_node or connect_nodes allocates differs from the
\* snapshot's ids and from the ids allocated earlier in the request, and in
\* the final log, whichever tier produced it, no two add_node operations carry
\* the same node id and no add_node carries the id of a snapshot node.
C32_IdsUnique ==
    /\ AllocatedIdsFresh
    /\ pc = "done" => AddNodeIdsUnique(resp.operations)

----------------------------------------------------------------------------
(* The recorder's log only grows at its end *)

AppendingTools == {"remove_node", "connect_nodes", "disconnect_nodes", "update_node_value"}

\* C33: every remove_node, connect_nodes, disconnect_nodes and
\* update_node_value call that returns, whatever its key ("label" included),
\* leaves the log one operation longer, with the earlier entries as they were
\* and in their order.
C33_EachCallAppendsOne ==
    [][(Len(calls') = Len(calls) + 1 /\ calls'[Len(calls')].tool \in AppendingTools) =>
          /\ Len(ctx'.operations) = Len(ctx.operations) + 1
          /\ SubSeq(ctx'.operations, 1, Len(ctx.operations)) = ctx.operations]_vars

----------------------------------------------------------------------------
(* Routing and the tool surface: the start of process_request on requests  *)
(* with and without a slash command, a text, and a fragment master         *)

\* ctx.allow_generate_image
AllowGenerateImage(m) == m = "generateimage"

\* the tools _make_tools registers for a request whose mode is m
Tools_WithImage(m) ==
    {"add_node", "remove_node", "connect_nodes", "disconnect_nodes", "update_node_value",
     "upload_asset", "list_attachments", "select_attachment", "request_previews",
     "generate_image"}

Tools(m) ==
    {"add_node", "remove_node", "connect_nodes", "disconnect_nodes", "update_node_value",
     "upload_asset", "list_attachments", "select_attachment", "request_previews"}
    \cup (IF AllowGenerateImage(m) THEN {"generate_image"} ELSE {})

\* _new_asset_id("gen"): a fresh name
GenAssetId(c) == <<"gen_uuid", "_", Len(c.operations)>>

\* generate_image: the image model answers with an image or the call raises
GenerateImageTool(c, answered) ==
    IF answered
    THEN [c |-> [c EXCEPT !.operations = Append(@, OpUploadAsset(GenAssetId(c)))],
          ret |-> GenAssetId(c), put |-> {GenAssetId(c)}]
    ELSE [c |-> c, ret |-> NoId, put |-> {}]

\* the agent can call generate_image only when the tool is registered
GenerateImage(answered) ==
    /\ pc = "primary" /\ Len(calls) < MaxCalls
    /\ "generate_image" \in Tools(mode)
    /\ \E r \in {GenerateImageTool(ctx, answered)} :
          /\ ctx' = r.c
          /\ assets' = assets \cup r.put
          /\ calls' = Append(calls, Call("generate_image", "", <<>>, NoValue, r.ret, ctx, r.c))
    /\ UNCHANGED <<pc, definitions, req, mode, work, resp, trace, arg, result>>

RouteCommands == {"", "ask", "repair", "generateimage", "polish"}
RouteTexts == {"", "add a red color"}

RouteRequests ==
    {Request(g, StdDefs, text, cmd, <<>>) :
        g \in Snapshots, text \in RouteTexts, cmd \in RouteCommands}

RouteInit ==
    /\ pc = "start"
    /\ req \in RouteRequests
    /\ ctx = NewContext(req.graph, {})
    /\ calls = <<>>
    /\ definitions = req.definitions
    /\ mode = ""
    /\ work = NoWork
    /\ resp = NoResp
    /\ trace = <<>>
    /\ arg = NoArg
    /\ result = NoResult
    /\ assets = {}

RouteNext ==
    \/ Start
    \/ \E answer \in RouterAnswers : RouteReply(answer)
    \/ AddNode("color")
    \/ \E answered \in BOOLEAN : GenerateImage(answered)

SpecRoute == RouteInit /\ [][RouteNext]_vars

\* the mode is settled
Routed == pc \notin {"start", "route"}

ClassifierModes == {"architect", "editor", "refiner", "consultant"}

\* with a command the mode is the command's, no classifier is asked and the
\* linter has no say
CommandDecides ==
    (Routed /\ req.cmd # "") =>
        /\ mode = NormalizeMode(req.cmd)
        /\ CallsMade("ROUTE") = 0

\* C34 as stated: with a command the mode is derived from it, without a
\* classification call and whatever the linter found; without a command one
\* classification call is made and the mode is the classifier's, or refiner
\* when the linter reported a critical issue.
C34_OneCallWithoutCommand ==
    /\ CommandDecides
    /\ (Routed /\ req.cmd = "") =>
          /\ CallsMade("ROUTE") = 1
          /\ IF LintCritical(req.graph) THEN mode = "refiner" ELSE mode \in ClassifierModes

\* C34, amended: with a command the mode is derived from it, without a
\* classification call and whatever the linter found; without a command and
\* with a user text one classification call is made, its answer is the mode
\* when it is one of the four modes and editor otherwise; without a command
\* and without any user text no call is made and the mode is editor; in both
\* cases without a command the mode is refiner instead when the linter
\* reported a critical issue.
C34_CommandThenClassifierThenLinter ==
    /\ []CommandDecides
    /\ []((Routed /\ req.cmd = "") =>
             /\ CallsMade("ROUTE") = (IF req.text = "" THEN 0 ELSE 1)
             /\ IF LintCritical(req.graph) THEN mode = "refiner"
                ELSE IF req.text = "" THEN mode = "editor"
                ELSE mode \in ClassifierModes)
    /\ [][(pc = "route" /\ pc' # "route") =>
             \E answer \in RouterAnswers :
                mode' = IF LintCritical(req.graph) THEN "refiner"
                        ELSE IF answer \in ClassifierModes THEN answer ELSE "editor"]_vars

C34_Witness ==
    /\ Routed
    /\ req.cmd = "ask" /\ LintCritical(req.graph) /\ mode = "consultant"
    /\ trace = <<>>

\* the generate_image calls made, and the uploads of generated images logged
ImageCalls == {k \in 1..Len(calls) : calls[k].tool = "generate_image"}
GeneratedUploads ==
    {i \in 1..Len(ctx.operations) :
        ctx.operations[i].op = "upload_asset" /\ ctx.operations[i].assetId[1] = "gen_uuid"}

\* C35: once the mode is settled, generate_image is among the request's tools
\* exactly when the mode is generateimage, and the mode is generateimage only
\* for the slash command of that name; in every other mode, refiner forced by
\* the linter included, no generate_image call is made, no generated image is
\* stored and no upload of one is logged.
C35_ImageToolOnlyOnCommand ==
    Routed =>
        /\ "generate_image" \in Tools(mode) <=> mode = "generateimage"
        /\ mode = "generateimage" <=> req.cmd = "generateimage"
        /\ mode # "generateimage" =>
              /\ ImageCalls = {}
              /\ GeneratedUploads = {}
              /\ assets = {}

C35_Witness ==
    /\ Routed /\ mode = "generateimage" /\ LintCritical(req.graph)
    /\ ImageCalls # {} /\ GeneratedUploads # {}
    /\ \E k \in ImageCalls : calls[k].ret = NoId
-----------------------------------------------------------------------------
(* Preview requests: the request_previews tool of the recorder, and a      *)
(* request_previews item of a planning document, each followed by the      *)
(* optimizer and the validator.                                             *)

\* `for r in requests[:3]`
MaxPreviewItems == 3

\* one item of request_previews as the tool cleans it; the enum fields are
\* stripped and lower-cased before they are compared
CleanPreview(r) ==
    [nodeId |-> GetId(r, "nodeId"),
     kind |-> "png",
     previewMode |-> IF LowerStr(GetStr(r, "previewMode")) \in {"2d", "3d"}
                     THEN LowerStr(GetStr(r, "previewMode")) ELSE "",
     previewObject |-> IF LowerStr(GetStr(r, "previewObject")) \in {"sphere", "box", "quad"}
                       THEN LowerStr(GetStr(r, "previewObject")) ELSE "box",
     durationSec |-> "",
     fps |-> ""]

\* the cleaning loop of request_previews over the first items
CleanPreviews(requests) ==
    SelectSeq([k \in 1..Len(FirstN(requests, MaxPreviewItems)) |-> requests[k]],
              LAMBDA r : GetId(r, "nodeId") # NoId)

\* request_previews: raises on an empty list and when no item is left
RequestPreviewsTool(c, requests) ==
    IF requests = <<>> \/ CleanPreviews(requests) = <<>>
    THEN [c |-> c, raised |-> TRUE]
    ELSE [c |-> [c EXCEPT !.operations =
                    Append(@, [BlankOp EXCEPT
                                 !.op = "request_previews",
                                 !.previewRequests =
                                     [k \in 1..Len(CleanPreviews(requests)) |->
                                         CleanPreview(CleanPreviews(requests)[k])]])],
          raised |-> FALSE]

\* the longest list of preview items a call or a document carries
MaxRequests == 4

RawPreviews ==
    {[nodeId |-> NodeId(0), previewMode |-> "3d", previewObject |-> "sphere"],
     [nodeId |-> NodeId(0), kind |-> "sequence", durationSec |-> "2", fps |-> "30"],
     [nodeId |-> NoId, previewObject |-> "quad"],
     [previewMode |-> "2d", previewObject |-> "quad"],
     [nodeId |-> NodeId(0), previewMode |-> "4d", previewObject |-> "cube"]}

RawRequests == UNION {[1..n -> RawPreviews] : n \in 0..MaxRequests}

PreviewInit ==
    /\ pc = "primary"
    /\ ctx = NewContext(<<[id |-> NodeId(0), type |-> "color"],
                          [id |-> Nm("output"), type |-> "output"]>>, {})
    /\ definitions = StdDefs
    /\ calls = <<>>
    /\ req = Request(ctx.graph_nodes, definitions, "show me the color node", "", <<>>)
    /\ mode = "editor"
    /\ work = NoWork
    /\ resp = NoResp
    /\ trace = <<>>
    /\ arg = NoArg
    /\ result = NoResult
    /\ assets = {}

\* the agent calls request_previews
RequestPreviews(requests) ==
    /\ pc = "primary" /\ calls = <<>>
    /\ \E r \in {RequestPreviewsTool(ctx, requests)} :
          /\ ctx' = r.c
          /\ calls' = Append(calls, Call("request_previews", "", <<>>, NoValue, NoId, ctx, r.c))
    /\ arg' = requests
    /\ UNCHANGED <<pc, definitions, req, mode, work, resp, trace, result, assets>>

\* the run ends with the recorder's log: optimizer, then validator
EmitRecorded ==
    /\ pc = "primary" /\ calls # <<>>
    /\ LET v == ValidateOps(ctx, definitions,
                            OptimizeRedundantTextureSampling(ctx.operations))
       IN result' = [kind |-> "validated", ops |-> v.ops, warnings |-> v.warnings]
    /\ trace' = <<"PRIMARY">>
    /\ pc' = "validated"
    /\ UNCHANGED <<ctx, calls, definitions, req, mode, work, arg, resp, assets>>

\* the planner's document holds one request_previews item, written in the
\* canonical or in the tool style: planner, optimizer, then validator
EmitPlanned(requests, style) ==
    /\ pc = "primary" /\ calls = <<>>
    /\ LET item == IF style = "tool"
                   THEN [tool |-> "requestPreviews", requests |-> requests]
                   ELSE [op |-> "request_previews", previewRequests |-> requests]
           r == DirectPlanFromData(ctx, Doc("Previews requested", <<item>>))
           v == ValidateOps(ctx, definitions, OptimizeRedundantTextureSampling(r.ops))
       IN result' = [kind |-> "validated", ops |-> v.ops, warnings |-> v.warnings]
    /\ arg' = requests
    /\ trace' = <<"FALLBACK_PLAN">>
    /\ pc' = "validated"
    /\ UNCHANGED <<ctx, calls, definitions, req, mode, work, resp, assets>>

PreviewNext ==
    \/ \E requests \in RawRequests : RequestPreviews(requests)
    \/ EmitRecorded
    \/ \E requests \in RawRequests, style \in {"op", "tool"} : EmitPlanned(requests, style)

SpecPreviews == PreviewInit /\ [][PreviewNext]_vars

\* a preview item as the wire format wants it
PreviewWellFormed(p) ==
    /\ p.nodeId # NoId
    /\ p.kind = "png" /\ p.durationSec = "" /\ p.fps = ""
    /\ p.previewMode \in {"2d", "3d", ""}
    /\ p.previewObject \in {"sphere", "box", "quad"}

PreviewOpWellFormed(op) ==
    /\ Len(op.previewRequests) <= MaxPreviewItems
    /\ \A k \in 1..Len(op.previewRequests) : PreviewWellFormed(op.previewRequests[k])

FinalPreviewOps ==
    IF pc = "validated"
    THEN {result.ops[k] : k \in {j \in 1..Len(result.ops) : result.ops[j].op = "request_previews"}}
    ELSE {}

\* C36, on every final log: every request_previews operation, whichever
\* tier produced it, carries at most 3 items, each with a non-empty node id,
\* kind png without duration or fps, previewMode 2d, 3d or unset, and
\* previewObject sphere, box or quad.
C36_PreviewsWellFormed == \A op \in FinalPreviewOps : PreviewOpWellFormed(op)
-----------------------------------------------------------------------------
(* The validator's add_node branch, over logs whose add_node operations     *)
(* lack an id, lack a type, or name a type the catalog does not hold.       *)

CreationMenu ==
    {OpAddNode(Nm("n1"), ""),
     OpAddNode(NoId, "color"),
     OpAddNode(Nm("n2"), "mystery"),
     OpAddNode(Nm("n3"), "color"),
     OpMoveNode(Nm("n1")),
     OpMoveNode(Nm("n2")),
     OpAddConnection(NoId, Nm("n1"), "out", Nm("output"), "color")}

CreationLogs == UNION {[1..n -> CreationMenu] : n \in 0..MaxLogLen}

CreationInit ==
    /\ pc = "validate"
    /\ \E g \in {FullGraph, OutputOnly} : ctx = NewContext(g, {})
    /\ definitions = StdDefs
    /\ arg \in CreationLogs
    /\ calls = <<>>
    /\ req = Request(ctx.graph_nodes, definitions, "add a red color", "", <<>>)
    /\ mode = "architect"
    /\ work = NoWork
    /\ resp = NoResp
    /\ trace = <<>>
    /\ result = NoResult
    /\ assets = {}

SpecCreation == CreationInit /\ [][ValidateLog]_vars

\* the add_node operations of a log that satisfy `keep`, in order
KeptAddNodes(ops, keep(_)) == SelectSeq(ops, LAMBDA op : op.op = "add_node" /\ keep(op))

HasIdAndType(op) == op.nodeId # NoId /\ op.nodeType # ""
HasId(op) == op.nodeId # NoId

\* an id is established before the i-th operation by the snapshot or by an
\* earlier add_node that satisfies `keep`
EstablishedAt(i, id, keep(_)) ==
    \/ id \in OKeys(ctx.node_types)
    \/ \E e \in 1..(i-1) : arg[e].op = "add_node" /\ arg[e].nodeId = id /\ keep(arg[e])

\* the validator's treatment of add_node when `keep` decides what is emitted
AddNodeRule(keep(_)) ==
    pc = "validated" =>
        /\ KeptAddNodes(result.ops, LAMBDA op : TRUE) = KeptAddNodes(arg, keep)
        /\ \A i \in 1..Len(arg) :
              arg[i].op = "add_node" =>
                  IF ~keep(arg[i]) THEN WarningsAt(i) # {}
                  ELSE IF arg[i].nodeType = ""
                  THEN \E w \in WarningsAt(i) : w.reason = "add_node missing nodeType"
                  ELSE IF LowerStr(arg[i].nodeType) \notin DOMAIN definitions
                  THEN \E w \in WarningsAt(i) :
                          w.reason = "unknown nodeType (no definition found)"
                  ELSE WarningsAt(i) = {}
        /\ \A i \in 1..Len(arg) :
              arg[i].op = "move_node" =>
                  IF EstablishedAt(i, arg[i].nodeId, keep) THEN WarningsAt(i) = {}
                  ELSE \E w \in WarningsAt(i) : w.reason = "references unknown nodeId"

\* C37, on every validated log: an add_node is emitted only if it has both a
\* node id and a node type; one whose type the catalog does not hold is kept
\* with a warning; one lacking id or type is dropped with a warning and does
\* not make its id known to the operations after it.
C37_AddNodeNeedsIdAndType == AddNodeRule(HasIdAndType)
-----------------------------------------------------------------------------
(* The ids add_node returns, against the removals the log already holds *)

\* id is live after the first n operations of the recorder's log: the
\* snapshot holds it or an add_node among them created it, and no remove_node
\* after that removed it
LiveAfter(n, id) ==
    \E e \in 0..n :
        /\ \/ e = 0 /\ id \in SnapshotIds(ctx.graph_nodes)
           \/ e > 0 /\ ctx.operations[e].op = "add_node" /\ ctx.operations[e].nodeId = id
        /\ \A k \in (e+1)..n :
              ~(ctx.operations[k].op = "remove_node" /\ ctx.operations[k].nodeId = id)

\* the ids the validator knows once it has walked the first n operations
KnownAfter(n) ==
    ValWalk(ctx, definitions, SubSeq(ctx.operations, 1, n), 1, ValidateStart(ctx)).known_ids

\* C38, on every state of the recorder: the id every add_node call returned
\* is live at that point of the log, and the validator knows it there, so
\* that an operation wired to it next is not dropped for naming it.
C38_AddNodeReturnsLiveId ==
    \A k \in 1..Len(calls) :
        calls[k].tool = "add_node" =>
            /\ LiveAfter(calls[k].after, calls[k].ret)
            /\ calls[k].ret \in KnownAfter(calls[k].after)
-----------------------------------------------------------------------------
(* Structural linter: tools/linter.py, validate_graph.  A graph state is   *)
(* [nodes, connections]; a connection is kept by its two node ids.         *)

Edge(s, t) == [sourceNodeId |-> s, targetNodeId |-> t]

\* adj = {n.id: [] for n in graph.nodes} without the connections that start
\* and end at the same node
Adj_NoSelfLoops(g) ==
    [id \in {g.nodes[i].id : i \in 1..Len(g.nodes)} |->
        LET out == SelectSeq(g.connections,
                             LAMBDA c : c.sourceNodeId = id /\ c.targetNodeId # id)
        IN [k \in 1..Len(out) |-> out[k].targetNodeId]]

\* adj = {n.id: [] for n in graph.nodes}, then every connection whose source
\* is a key appends its target, in the order of the connections
Adj(g) ==
    [id \in {g.nodes[i].id : i \in 1..Len(g.nodes)} |->
        LET out == SelectSeq(g.connections, LAMBDA c : c.sourceNodeId = id)
        IN [k \in 1..Len(out) |-> out[k].targetNodeId]]

\* adj.get(node_id, [])
AdjGet(adj, node_id) == IF node_id \in DOMAIN adj THEN adj[node_id] ELSE <<>>

RECURSIVE HasCycle(_, _, _)
RECURSIVE HasCycleLoop(_, _, _, _, _)

\* has_cycle(node_id) on the sets visited and recursion_stack of st;
\* returns [found, visited, recursion_stack]
HasCycle(adj, node_id, st) ==
    Let(HasCycleLoop(adj, node_id, AdjGet(adj, node_id), 1,
                     [st EXCEPT !.visited = @ \cup {node_id},
                                !.recursion_stack = @ \cup {node_id}]), LAMBDA r :
        IF r.found THEN r
        ELSE [r EXCEPT !.recursion_stack = @ \ {node_id}])

\* the loop of has_cycle over the neighbors from the k-th on
HasCycleLoop(adj, node_id, neighbors, k, st) ==
    IF k > Len(neighbors) THEN [st EXCEPT !.found = FALSE]
    ELSE IF neighbors[k] \notin st.visited
    THEN Let(HasCycle(adj, neighbors[k], st), LAMBDA r :
            IF r.found THEN r
            ELSE HasCycleLoop(adj, node_id, neighbors, k + 1, r))
    ELSE IF neighbors[k] \in st.recursion_stack
    THEN [st EXCEPT !.found = TRUE]
    ELSE HasCycleLoop(adj, node_id, neighbors, k + 1, st)

RECURSIVE CycleScan(_, _, _, _)
\* the loop over graph.nodes from the k-th on: TRUE at the first start node
\* whose search finds a cycle
CycleScan(adj, nodes, k, st) ==
    IF k > Len(nodes) THEN FALSE
    ELSE IF nodes[k].id \in st.visited THEN CycleScan(adj, nodes, k + 1, st)
    ELSE Let(HasCycle(adj, nodes[k].id, st), LAMBDA r :
            IF r.found THEN TRUE ELSE CycleScan(adj, nodes, k + 1, r))

CycleFinding == "Cycle detected in graph logic."

RECURSIVE ConnectivityReport(_, _, _)
\* the loop over graph.nodes of the connectivity section, from the k-th on
ConnectivityReport(g, def_map, k) ==
    IF k > Len(g.nodes) THEN <<>>
    ELSE (IF g.nodes[k].type \notin DOMAIN def_map
          THEN <<"Unknown node type">>
          ELSE IF g.nodes[k].type = "output"
                  /\ ~\E j \in 1..Len(g.connections) :
                         g.connections[j].targetNodeId = g.nodes[k].id
          THEN <<"Master Output node is not connected to anything.">>
          ELSE <<>>)
         \o ConnectivityReport(g, def_map, k + 1)

\* validate_graph: the report, and the graph as the call leaves it
ValidateGraph(g, defs) ==
    [report |->
        (IF \E i \in 1..Len(g.nodes) : g.nodes[i].type = "output" THEN <<>>
         ELSE <<"CRITICAL: Missing 'Fragment Master' (output) node.">>)
        \o ConnectivityReport(g, defs, 1)
        \o (IF CycleScan(Adj(g), g.nodes, 1,
                         [found |-> FALSE, visited |-> {}, recursion_stack |-> {}])
            THEN <<CycleFinding>> ELSE <<>>),
     graph |-> g]

\* the most connections a linted snapshot holds
MaxConnections == 3

LintNodes ==
    {<<[id |-> Nm("a"), type |-> "color"], [id |-> Nm("b"), type |-> "uv"],
       [id |-> Nm("m"), type |-> "output"]>>,
     <<[id |-> Nm("b"), type |-> "mystery"], [id |-> Nm("a"), type |-> "color"]>>}

LintEnds == {Nm("a"), Nm("b"), Nm("m"), Nm("ghost")}
LintEdges == {Edge(s, t) : s \in LintEnds, t \in LintEnds}

LintGraphs ==
    {[nodes |-> ns, connections |-> cs] :
        ns \in LintNodes, cs \in UNION {[1..n -> LintEdges] : n \in 0..MaxConnections}}

LintInit ==
    /\ pc = "lint"
    /\ arg \in LintGraphs
    /\ ctx = NewContext(arg.nodes, {})
    /\ definitions = StdDefs
    /\ calls = <<>>
    /\ req = Request(arg, definitions, "why is it black", "", <<>>)
    /\ mode = "editor"
    /\ work = NoWork
    /\ resp = NoResp
    /\ trace = <<>>
    /\ result = NoResult
    /\ assets = {}

\* validate_graph(graph, definitions) on the request's graph
LintGraph ==
    /\ pc = "lint"
    /\ LET r == ValidateGraph(arg, definitions)
       IN /\ result' = [kind |-> "linted", report |-> r.report]
          /\ arg' = r.graph
    /\ pc' = "linted"
    /\ UNCHANGED <<ctx, calls, definitions, req, mode, work, trace, resp, assets>>

SpecLint == LintInit /\ [][LintGraph]_vars

\* the connections of g between two of its nodes, as pairs
EdgesOver(g) ==
    LET ids == {g.nodes[i].id : i \in 1..Len(g.nodes)}
    IN {<<g.connections[j].sourceNodeId, g.connections[j].targetNodeId>> :
            j \in {k \in 1..Len(g.connections) :
                      /\ g.connections[k].sourceNodeId \in ids
                      /\ g.connections[k].targetNodeId \in ids}}

RECURSIVE PathsWithin(_, _)
\* the pairs joined by a path of 1 to n edges
PathsWithin(E, n) ==
    IF n <= 1 THEN E
    ELSE LET P == PathsWithin(E, n - 1)
         IN P \cup {<<x[1][1], x[2][2]>> : x \in {y \in P \X E : y[1][2] = y[2][1]}}

\* some node of g is joined to itself by a path of at least one edge
Cyclic(g) ==
    \E pr \in PathsWithin(EdgesOver(g), Len(g.nodes)) : pr[1] = pr[2]

CycleFindings(report) == Cardinality({k \in 1..Len(report) : report[k] = CycleFinding})

\* C39, on every linted snapshot: the report holds the finding 'Cycle
\* detected' once if the snapshot's connections over its nodes contain a
\* directed cycle, self-loops included, and not at all otherwise; and the
\* graph is the one that was handed in.
C39_CycleReportedIffCyclic ==
    pc = "linted" =>
        /\ CycleFindings(result.report) = (IF Cyclic(req.graph) THEN 1 ELSE 0)
        /\ arg = req.graph

\* a reported cycle of at least two connections, none of them a self-loop, in
\* a snapshot that also holds a connection to a node it does not have
C39_Witness ==
    /\ pc = "linted"
    /\ CycleFindings(result.report) = 1
    /\ \A j \in 1..Len(arg.connections) :
          arg.connections[j].sourceNodeId # arg.connections[j].targetNodeId
    /\ \E j \in 1..Len(arg.connections) : arg.connections[j].targetNodeId = Nm("ghost")
=============================================================================
